---- MODULE Spec2Model ----
(***************************************************************************)
(* Vikunja API: sharing relations (users_lists, users_namespaces,          *)
(* team_namespaces), link shares and the structure importer.               *)
(*                                                                         *)
(* Every action is one call of a model method in a session of its own that *)
(* is committed when the method returns nil and rolled back otherwise.     *)
(* Tables are bags of rows: the autoincrement id of a relation row is left *)
(* out, two equal rows are two copies in the bag.  Failures of the         *)
(* database connection itself are left out of the sharing and link share   *)
(* operations.                                                             *)
(***************************************************************************)
EXTENDS Integers, Sequences, FiniteSets, Bags, TLC

VARIABLES
    users_lists,        \* bag of [list_id, user_id, right]
    users_namespaces,   \* bag of [namespace_id, user_id, right]
    team_namespaces,    \* bag of [namespace_id, team_id, right]
    link_shares,        \* set of link share rows
    share_seq,          \* last autoincrement id handed out for link_shares
    last,               \* the last call: its receiver, arguments and results
    db,                 \* the committed rows of the tables an import writes
    tx,                 \* the rows the session of the running import sees
    files,              \* the stored files
    seq,                \* last autoincrement id handed out by an import
    todo,               \* the rest of the walk of the running import
    labels,             \* its map from title+color to the created label
    buckets,            \* its map from old bucket id to the created bucket
    needsDefaultBucket, \* whether a task of the current list has no bucket
    result,             \* "idle", "running", or what the last import returned
    files_before,       \* the stored files when the last import was called
    label_tasks,        \* bag of [label_id, task_id]
    sessions,           \* the Create each concurrent session is in, and where
    authOpenID,         \* the OpenID part of the loaded configuration
    keyvalue,           \* the key-value store
    built,              \* how many providers getProviderFromMap has built
    user_rows,          \* password and password_reset_token of each row of users
    token_seq,          \* how many reset tokens MakeRandomString has made
    spent,              \* history: the tokens a ResetPassword has succeeded with
    cron,               \* the reminder cron: registered or not, its next run
    selected            \* history: how many runs have selected each reminder

shareVars == <<users_lists, users_namespaces, team_namespaces>>
linkVars == <<link_shares, share_seq>>
labelVars == <<label_tasks>>
raceVars == <<sessions>>
openidVars == <<authOpenID, keyvalue, built>>
userVars == <<user_rows, token_seq, spent>>
cronVars == <<cron, selected>>

\* The sessions that run at the same time, and a session in no call.
NumSessions == 2
Sessions == 1..NumSessions
Idle == [pc |-> "idle"]

\* The configuration before it is loaded, and the key-value store with
\* nothing in it: no list under openid_providers and no provider under
\* openid_provider_<key> for any key.
NotLoaded == [loaded |-> FALSE]
EmptyStore == [openid_providers |-> {}, openid_provider_ |-> {}]
importVars ==
    <<db, tx, files, seq, todo, labels, buckets, needsDefaultBucket, result, files_before>>

\* ---------------------------------------------------------------- rights

RightRead == 0
RightWrite == 1
RightAdmin == 2

\* Right values a request can carry: 0 .. MaxRightInput, the values above
\* RightAdmin being the invalid ones.
MaxRightInput == 3
RightInputs == 0..MaxRightInput

isValid(r) == r = RightAdmin \/ r = RightRead \/ r = RightWrite

\* -------------------------------------------------------------- fixtures
\* The rows of the tables no modelled operation writes.

users ==
    { [ID |-> 1, Username |-> "user1", Email |-> "user1@example.com"],
      [ID |-> 2, Username |-> "user2", Email |-> "user2@example.com"],
      [ID |-> 3, Username |-> "user3", Email |-> "user3@example.com"] }

namespaces == { [ID |-> 1, OwnerID |-> 1] }

lists ==
    { [ID |-> 1, NamespaceID |-> 1, OwnerID |-> 1],
      [ID |-> 2, NamespaceID |-> 1, OwnerID |-> 2] }

teams == { [ID |-> 1] }

team_members == { [team_id |-> 1, user_id |-> 3] }

NoRow == [ID |-> 0, NamespaceID |-> 0, OwnerID |-> 0, Username |-> "", Email |-> ""]

GetUserByUsername(name) ==
    IF \E u \in users : u.Username = name
    THEN CHOOSE u \in users : u.Username = name
    ELSE NoRow

GetListSimpleByID(id) ==
    IF \E l \in lists : l.ID = id
    THEN CHOOSE l \in lists : l.ID = id
    ELSE NoRow

GetNamespaceByID(id) ==
    IF \E n \in namespaces : n.ID = id
    THEN CHOOSE n \in namespaces : n.ID = id
    ELSE NoRow

GetTeamByID(id) ==
    IF \E t \in teams : t.ID = id
    THEN CHOOSE t \in teams : t.ID = id
    ELSE NoRow

\* ------------------------------------------------------------- principals
\* web.Auth: a registered user or a link share.

UserAuth(id) == [kind |-> "user", ID |-> id, ListID |-> 0, Right |-> 0]
LinkAuth(id, listID, right) ==
    [kind |-> "link", ID |-> id, ListID |-> listID, Right |-> right]

IsLinkSharing(a) == a.kind = "link"

\* LinkSharing.GetID and user.User.GetID
GetID(a) == a.ID

\* LinkSharing.getUserID
getUserID(share) == share.ID * (0 - 1)

\* LinkSharing.toUser: the pseudo user of a link share
toUser(share) == [ID |-> getUserID(share)]

\* ------------------------------------------------------- access resolution

Max(S) == CHOOSE x \in S : \A y \in S : y <= x

NoRight == 0 - 1

\* The rights a registered user holds on a namespace, from every source.
NamespaceRights(n, uid) ==
    (IF n.OwnerID = uid THEN {RightAdmin} ELSE {})
    \cup { r.right : r \in { x \in BagToSet(users_namespaces) :
                               x.namespace_id = n.ID /\ x.user_id = uid } }
    \cup { r.right : r \in { x \in BagToSet(team_namespaces) :
                               /\ x.namespace_id = n.ID
                               /\ [team_id |-> x.team_id, user_id |-> uid]
                                      \in team_members } }

\* The rights a registered user holds on a list, from every source.
ListRights(l, uid) ==
    (IF l.OwnerID = uid THEN {RightAdmin} ELSE {})
    \cup { r.right : r \in { x \in BagToSet(users_lists) :
                               x.list_id = l.ID /\ x.user_id = uid } }
    \cup NamespaceRights(GetNamespaceByID(l.NamespaceID), uid)

\* The highest right of principal a on the namespace, NoRight when none.
NamespaceRight(id, a) ==
    LET n == GetNamespaceByID(id)
        rs == IF n.ID = 0 \/ IsLinkSharing(a) THEN {} ELSE NamespaceRights(n, a.ID)
    IN IF rs = {} THEN NoRight ELSE Max(rs)

\* The highest right of principal a on the list, NoRight when none.
ListRight(id, a) ==
    LET l == GetListSimpleByID(id)
        rs == IF l.ID = 0 THEN {}
              ELSE IF IsLinkSharing(a)
                   THEN (IF a.ListID = l.ID THEN {a.Right} ELSE {})
                   ELSE ListRights(l, a.ID)
    IN IF rs = {} THEN NoRight ELSE Max(rs)

ListIsAdmin(id, a) == ListRight(id, a) = RightAdmin
ListCanWrite(id, a) == ListRight(id, a) >= RightWrite
ListCanRead(id, a) == ListRight(id, a) >= RightRead
NamespaceIsAdmin(id, a) == NamespaceRight(id, a) = RightAdmin
NamespaceCanRead(id, a) == NamespaceRight(id, a) >= RightRead

\* ------------------------------------------------------------ bag helpers

BagInsert(b, r) == b (+) SetToBag({r})

\* DELETE of the rows in hit
BagDeleteRows(b, hit) == [r \in DOMAIN b \ hit |-> b[r]]

RECURSIVE CopiesOf(_, _)
CopiesOf(b, S) ==
    IF S = {} THEN 0
    ELSE LET r == CHOOSE x \in S : TRUE
         IN b[r] + CopiesOf(b, S \ {r})

\* UPDATE ... SET right = ? without the WHERE of the call.
BagSetRight_EveryRow(b, hit, right) ==
    LET new == { [x EXCEPT !.right = right] : x \in DOMAIN b }
    IN [r \in new |-> CopiesOf(b, { x \in DOMAIN b : [x EXCEPT !.right = right] = r })]

\* UPDATE ... SET right = ? of the rows in hit
BagSetRight(b, hit, right) ==
    LET kept == [r \in DOMAIN b \ hit |-> b[r]]
        new == { [x EXCEPT !.right = right] : x \in hit }
    IN kept (+) [r \in new |->
                   CopiesOf(b, { x \in hit : [x EXCEPT !.right = right] = r })]

\* ------------------------------------------------------- ListUser (users_lists)

ListUserRow(lu, uid) == [list_id |-> lu.ListID, user_id |-> uid, right |-> lu.Right]

ListUserExists(listID, uid) ==
    \E r \in BagToSet(users_lists) : r.list_id = listID /\ r.user_id = uid

\* ListUser.Create without the comparison with the list's owner.
ListUserCreateErr_NoOwnerCheck(lu) ==
    LET l == GetListSimpleByID(lu.ListID)
        u == GetUserByUsername(lu.Username)
    IN IF ~isValid(lu.Right) THEN "ErrInvalidRight"
       ELSE IF l.ID = 0 THEN "ErrListDoesNotExist"
       ELSE IF u.ID = 0 THEN "ErrUserDoesNotExist"
       ELSE IF ListUserExists(lu.ListID, u.ID) THEN "ErrUserAlreadyHasAccess"
       ELSE ""

\* ListUser.Create without the lookup of an existing row.
ListUserCreateErr_NoExistCheck(lu) ==
    LET l == GetListSimpleByID(lu.ListID)
        u == GetUserByUsername(lu.Username)
    IN IF ~isValid(lu.Right) THEN "ErrInvalidRight"
       ELSE IF l.ID = 0 THEN "ErrListDoesNotExist"
       ELSE IF u.ID = 0 THEN "ErrUserDoesNotExist"
       ELSE IF l.OwnerID = u.ID THEN "ErrUserAlreadyHasAccess"
       ELSE ""

\* The error ListUser.Create returns before it inserts, "" when none.
ListUserCreateErr(lu) ==
    LET l == GetListSimpleByID(lu.ListID)
        u == GetUserByUsername(lu.Username)
    IN IF ~isValid(lu.Right) THEN "ErrInvalidRight"
       ELSE IF l.ID = 0 THEN "ErrListDoesNotExist"
       ELSE IF u.ID = 0 THEN "ErrUserDoesNotExist"
       ELSE IF l.OwnerID = u.ID THEN "ErrUserAlreadyHasAccess"
       ELSE IF ListUserExists(lu.ListID, u.ID) THEN "ErrUserAlreadyHasAccess"
       ELSE ""

ListUserCreate(lu, a) ==
    LET u == GetUserByUsername(lu.Username)
        err == ListUserCreateErr(lu)
    IN /\ users_lists' = IF err = "" THEN BagInsert(users_lists, ListUserRow(lu, u.ID))
                         ELSE users_lists
       /\ last' = [op |-> "ListUser.Create", parent |-> lu.ListID,
                   principal |-> lu.Username, principalID |-> u.ID,
                   right |-> lu.Right, err |-> err,
                   event |-> IF err = "" THEN "ListSharedWithUserEvent" ELSE "",
                   touched |-> err = ""]
       /\ UNCHANGED <<users_namespaces, team_namespaces, linkVars, importVars, labelVars, raceVars, openidVars, userVars, cronVars>>

ListUserDeleteErr(lu) ==
    LET u == GetUserByUsername(lu.Username)
    IN IF u.ID = 0 THEN "ErrUserDoesNotExist"
       ELSE IF ~ListUserExists(lu.ListID, u.ID) THEN "ErrUserDoesNotHaveAccessToList"
       ELSE ""

\* ListUser.Delete with a statement that names the list only.
ListUserDelete_WholeList(lu, a) ==
    LET u == GetUserByUsername(lu.Username)
        err == ListUserDeleteErr(lu)
        hit == { r \in DOMAIN users_lists : r.list_id = lu.ListID }
    IN /\ users_lists' = IF err = "" THEN BagDeleteRows(users_lists, hit)
                         ELSE users_lists
       /\ last' = [op |-> "ListUser.Delete", parent |-> lu.ListID,
                   principal |-> lu.Username, principalID |-> u.ID,
                   right |-> lu.Right, err |-> err, event |-> "",
                   touched |-> err = ""]
       /\ UNCHANGED <<users_namespaces, team_namespaces, linkVars, importVars, labelVars, raceVars, openidVars, userVars, cronVars>>

ListUserDelete(lu, a) ==
    LET u == GetUserByUsername(lu.Username)
        err == ListUserDeleteErr(lu)
        hit == { r \in DOMAIN users_lists : r.user_id = u.ID /\ r.list_id = lu.ListID }
    IN /\ users_lists' = IF err = "" THEN BagDeleteRows(users_lists, hit)
                         ELSE users_lists
       /\ last' = [op |-> "ListUser.Delete", parent |-> lu.ListID,
                   principal |-> lu.Username, principalID |-> u.ID,
                   right |-> lu.Right, err |-> err, event |-> "",
                   touched |-> err = ""]
       /\ UNCHANGED <<users_namespaces, team_namespaces, linkVars, importVars, labelVars, raceVars, openidVars, userVars, cronVars>>

\* ListUser.Update looking the user up before it validates the right.
ListUserUpdateErr_UserFirst(lu) ==
    LET u == GetUserByUsername(lu.Username)
    IN IF u.ID = 0 THEN "ErrUserDoesNotExist"
       ELSE IF ~isValid(lu.Right) THEN "ErrInvalidRight"
       ELSE ""

ListUserUpdateErr(lu) ==
    LET u == GetUserByUsername(lu.Username)
    IN IF ~isValid(lu.Right) THEN "ErrInvalidRight"
       ELSE IF u.ID = 0 THEN "ErrUserDoesNotExist"
       ELSE ""

ListUserUpdate(lu, a) ==
    LET u == GetUserByUsername(lu.Username)
        err == ListUserUpdateErr(lu)
        hit == { r \in DOMAIN users_lists : r.list_id = lu.ListID /\ r.user_id = u.ID }
    IN /\ users_lists' = IF err = "" THEN BagSetRight(users_lists, hit, lu.Right)
                         ELSE users_lists
       /\ last' = [op |-> "ListUser.Update", parent |-> lu.ListID,
                   principal |-> lu.Username, principalID |-> u.ID,
                   right |-> lu.Right, err |-> err, event |-> "",
                   touched |-> err = ""]
       /\ UNCHANGED <<users_namespaces, team_namespaces, linkVars, importVars, labelVars, raceVars, openidVars, userVars, cronVars>>

\* canDoListUser without the denial of link shares.
canDoListUser_NoLinkCheck(lu, a) == ListIsAdmin(lu.ListID, a)

\* canDoListUser asking for write access only.
canDoListUser_CanWrite(lu, a) ==
    IF IsLinkSharing(a) THEN FALSE
    ELSE ListCanWrite(lu.ListID, a)

\* ListUser.canDoListUser
canDoListUser(lu, a) ==
    IF IsLinkSharing(a) THEN FALSE
    ELSE ListIsAdmin(lu.ListID, a)

\* ListUser.CanCreate, CanDelete and CanUpdate, op naming the one called
ListUserCan(op, lu, a) ==
    /\ op \in {"ListUser.CanCreate", "ListUser.CanDelete", "ListUser.CanUpdate"}
    /\ last' = [op |-> op, parent |-> lu.ListID, principal |-> lu.Username,
                auth |-> a, can |-> canDoListUser(lu, a)]
    /\ UNCHANGED <<shareVars, linkVars, importVars, labelVars, raceVars, openidVars, userVars, cronVars>>

\* UserWithRight: a row of users joined with the right of a relation row
UserWithRight(u, right) ==
    [ID |-> u.ID, Username |-> u.Username, Email |-> u.Email, Right |-> right]

\* users INNER JOIN users_lists ON user_id = users.id WHERE list_id = ?
ListUserJoin(lu) ==
    { p \in users \X DOMAIN users_lists :
        p[2].list_id = lu.ListID /\ p[2].user_id = p[1].ID }

\* ListUser.ReadAll handing the users back as the join found them.
ListUserReadAllOut_WithEmail(lu) ==
    { UserWithRight(p[1], p[2].right) : p \in ListUserJoin(lu) }

\* What ListUser.ReadAll returns for a caller who can read the list and an
\* empty search: the users of the list with their rights, emails cleared.
ListUserReadAllOut(lu) ==
    { [UserWithRight(p[1], p[2].right) EXCEPT !.Email = ""] : p \in ListUserJoin(lu) }

ListUserReadAll(lu, a) ==
    LET canRead == ListCanRead(lu.ListID, a)
    IN /\ last' = [op |-> "ListUser.ReadAll", parent |-> lu.ListID, auth |-> a,
                   err |-> IF canRead THEN "" ELSE "ErrNeedToHaveListReadAccess",
                   out |-> IF canRead THEN ListUserReadAllOut(lu) ELSE {}]
       /\ UNCHANGED <<shareVars, linkVars, importVars, labelVars, raceVars, openidVars, userVars, cronVars>>

\* ------------------------------------------- NamespaceUser (users_namespaces)

NamespaceUserRow(nu, uid) ==
    [namespace_id |-> nu.NamespaceID, user_id |-> uid, right |-> nu.Right]

NamespaceUserExists(namespaceID, uid) ==
    \E r \in BagToSet(users_namespaces) :
        r.namespace_id = namespaceID /\ r.user_id = uid

NamespaceUserCreateErr(nu) ==
    LET n == GetNamespaceByID(nu.NamespaceID)
        u == GetUserByUsername(nu.Username)
    IN IF ~isValid(nu.Right) THEN "ErrInvalidRight"
       ELSE IF n.ID = 0 THEN "ErrNamespaceDoesNotExist"
       ELSE IF u.ID = 0 THEN "ErrUserDoesNotExist"
       ELSE IF n.OwnerID = u.ID THEN "ErrUserAlreadyHasNamespaceAccess"
       ELSE IF NamespaceUserExists(nu.NamespaceID, u.ID)
            THEN "ErrUserAlreadyHasNamespaceAccess"
       ELSE ""

NamespaceUserCreate(nu, a) ==
    LET u == GetUserByUsername(nu.Username)
        err == NamespaceUserCreateErr(nu)
    IN /\ users_namespaces' =
              IF err = "" THEN BagInsert(users_namespaces, NamespaceUserRow(nu, u.ID))
              ELSE users_namespaces
       /\ last' = [op |-> "NamespaceUser.Create", parent |-> nu.NamespaceID,
                   principal |-> nu.Username, principalID |-> u.ID,
                   right |-> nu.Right, err |-> err,
                   event |-> IF err = "" THEN "NamespaceSharedWithUserEvent" ELSE "",
                   touched |-> FALSE]
       /\ UNCHANGED <<users_lists, team_namespaces, linkVars, importVars, labelVars, raceVars, openidVars, userVars, cronVars>>

NamespaceUserDeleteErr(nu) ==
    LET u == GetUserByUsername(nu.Username)
    IN IF u.ID = 0 THEN "ErrUserDoesNotExist"
       ELSE IF ~NamespaceUserExists(nu.NamespaceID, u.ID)
            THEN "ErrUserDoesNotHaveAccessToNamespace"
       ELSE ""

NamespaceUserDelete(nu, a) ==
    LET u == GetUserByUsername(nu.Username)
        err == NamespaceUserDeleteErr(nu)
        hit == { r \in DOMAIN users_namespaces : r.user_id = u.ID /\ r.namespace_id = nu.NamespaceID }
    IN /\ users_namespaces' = IF err = "" THEN BagDeleteRows(users_namespaces, hit)
                              ELSE users_namespaces
       /\ last' = [op |-> "NamespaceUser.Delete", parent |-> nu.NamespaceID,
                   principal |-> nu.Username, principalID |-> u.ID,
                   right |-> nu.Right, err |-> err, event |-> "",
                   touched |-> FALSE]
       /\ UNCHANGED <<users_lists, team_namespaces, linkVars, importVars, labelVars, raceVars, openidVars, userVars, cronVars>>

NamespaceUserUpdateErr(nu) ==
    LET u == GetUserByUsername(nu.Username)
    IN IF ~isValid(nu.Right) THEN "ErrInvalidRight"
       ELSE IF u.ID = 0 THEN "ErrUserDoesNotExist"
       ELSE ""

NamespaceUserUpdate(nu, a) ==
    LET u == GetUserByUsername(nu.Username)
        err == NamespaceUserUpdateErr(nu)
        hit == { r \in DOMAIN users_namespaces : r.namespace_id = nu.NamespaceID /\ r.user_id = u.ID }
    IN /\ users_namespaces' =
              IF err = "" THEN BagSetRight(users_namespaces, hit, nu.Right)
              ELSE users_namespaces
       /\ last' = [op |-> "NamespaceUser.Update", parent |-> nu.NamespaceID,
                   principal |-> nu.Username, principalID |-> u.ID,
                   right |-> nu.Right, err |-> err, event |-> "",
                   touched |-> FALSE]
       /\ UNCHANGED <<users_lists, team_namespaces, linkVars, importVars, labelVars, raceVars, openidVars, userVars, cronVars>>

NamespaceUserJoin(nu) ==
    { p \in users \X DOMAIN users_namespaces :
        p[2].namespace_id = nu.NamespaceID /\ p[2].user_id = p[1].ID }

NamespaceUserReadAllOut(nu) ==
    { [UserWithRight(p[1], p[2].right) EXCEPT !.Email = ""] :
        p \in NamespaceUserJoin(nu) }

NamespaceUserReadAll(nu, a) ==
    LET canRead == NamespaceCanRead(nu.NamespaceID, a)
    IN /\ last' = [op |-> "NamespaceUser.ReadAll", parent |-> nu.NamespaceID,
                   auth |-> a,
                   err |-> IF canRead THEN "" ELSE "ErrNeedToHaveNamespaceReadAccess",
                   out |-> IF canRead THEN NamespaceUserReadAllOut(nu) ELSE {}]
       /\ UNCHANGED <<shareVars, linkVars, importVars, labelVars, raceVars, openidVars, userVars, cronVars>>

\* -------------------------------------------- TeamNamespace (team_namespaces)

TeamNamespaceRow(tn) ==
    [namespace_id |-> tn.NamespaceID, team_id |-> tn.TeamID, right |-> tn.Right]

TeamNamespaceExists(namespaceID, teamID) ==
    \E r \in BagToSet(team_namespaces) :
        r.team_id = teamID /\ r.namespace_id = namespaceID

TeamNamespaceCreateErr(tn) ==
    IF ~isValid(tn.Right) THEN "ErrInvalidRight"
    ELSE IF GetTeamByID(tn.TeamID).ID = 0 THEN "ErrTeamDoesNotExist"
    ELSE IF GetNamespaceByID(tn.NamespaceID).ID = 0 THEN "ErrNamespaceDoesNotExist"
    ELSE IF TeamNamespaceExists(tn.NamespaceID, tn.TeamID) THEN "ErrTeamAlreadyHasAccess"
    ELSE ""

TeamNamespaceCreate(tn, a) ==
    LET err == TeamNamespaceCreateErr(tn)
    IN /\ team_namespaces' =
              IF err = "" THEN BagInsert(team_namespaces, TeamNamespaceRow(tn))
              ELSE team_namespaces
       /\ last' = [op |-> "TeamNamespace.Create", parent |-> tn.NamespaceID,
                   principal |-> "", principalID |-> tn.TeamID,
                   right |-> tn.Right, err |-> err,
                   event |-> IF err = "" THEN "NamespaceSharedWithTeamEvent" ELSE "",
                   touched |-> FALSE]
       /\ UNCHANGED <<users_lists, users_namespaces, linkVars, importVars, labelVars, raceVars, openidVars, userVars, cronVars>>

TeamNamespaceDeleteErr(tn) ==
    IF GetTeamByID(tn.TeamID).ID = 0 THEN "ErrTeamDoesNotExist"
    ELSE IF ~TeamNamespaceExists(tn.NamespaceID, tn.TeamID)
         THEN "ErrTeamDoesNotHaveAccessToNamespace"
    ELSE ""

TeamNamespaceDelete(tn, a) ==
    LET err == TeamNamespaceDeleteErr(tn)
        hit == { r \in DOMAIN team_namespaces : r.team_id = tn.TeamID /\ r.namespace_id = tn.NamespaceID }
    IN /\ team_namespaces' = IF err = "" THEN BagDeleteRows(team_namespaces, hit)
                             ELSE team_namespaces
       /\ last' = [op |-> "TeamNamespace.Delete", parent |-> tn.NamespaceID,
                   principal |-> "", principalID |-> tn.TeamID,
                   right |-> tn.Right, err |-> err, event |-> "",
                   touched |-> FALSE]
       /\ UNCHANGED <<users_lists, users_namespaces, linkVars, importVars, labelVars, raceVars, openidVars, userVars, cronVars>>

TeamNamespaceUpdateErr(tn) ==
    IF ~isValid(tn.Right) THEN "ErrInvalidRight" ELSE ""

TeamNamespaceUpdate(tn, a) ==
    LET err == TeamNamespaceUpdateErr(tn)
        hit == { r \in DOMAIN team_namespaces : r.namespace_id = tn.NamespaceID /\ r.team_id = tn.TeamID }
    IN /\ team_namespaces' =
              IF err = "" THEN BagSetRight(team_namespaces, hit, tn.Right)
              ELSE team_namespaces
       /\ last' = [op |-> "TeamNamespace.Update", parent |-> tn.NamespaceID,
                   principal |-> "", principalID |-> tn.TeamID,
                   right |-> tn.Right, err |-> err, event |-> "",
                   touched |-> FALSE]
       /\ UNCHANGED <<users_lists, users_namespaces, linkVars, importVars, labelVars, raceVars, openidVars, userVars, cronVars>>

\* TeamNamespace.CanCreate, CanDelete and CanUpdate
canDoTeamNamespace(tn, a) == NamespaceIsAdmin(tn.NamespaceID, a)

TeamNamespaceCan(op, tn, a) ==
    /\ op \in {"TeamNamespace.CanCreate", "TeamNamespace.CanDelete",
               "TeamNamespace.CanUpdate"}
    /\ last' = [op |-> op, parent |-> tn.NamespaceID, principal |-> "",
                auth |-> a, can |-> canDoTeamNamespace(tn, a)]
    /\ UNCHANGED <<shareVars, linkVars, importVars, labelVars, raceVars, openidVars, userVars, cronVars>>

\* addMoreInfoToTeams: the members of a team, emails cleared
TeamMembers(teamID) ==
    { [ID |-> u.ID, Username |-> u.Username, Email |-> ""] :
        u \in { x \in users : [team_id |-> teamID, user_id |-> x.ID] \in team_members } }

TeamNamespaceJoin(tn) ==
    { p \in teams \X DOMAIN team_namespaces :
        p[2].namespace_id = tn.NamespaceID /\ p[2].team_id = p[1].ID }

\* TeamWithRight: the teams of the namespace with their rights and members
TeamNamespaceReadAllOut(tn) ==
    { [ID |-> p[1].ID, Right |-> p[2].right, Members |-> TeamMembers(p[1].ID)] :
        p \in TeamNamespaceJoin(tn) }

TeamNamespaceReadAll(tn, a) ==
    LET canRead == NamespaceCanRead(tn.NamespaceID, a)
    IN /\ last' = [op |-> "TeamNamespace.ReadAll", parent |-> tn.NamespaceID,
                   auth |-> a,
                   err |-> IF canRead THEN "" ELSE "ErrNeedToHaveNamespaceReadAccess",
                   out |-> IF canRead THEN TeamNamespaceReadAllOut(tn) ELSE {}]
       /\ UNCHANGED <<shareVars, linkVars, importVars, labelVars, raceVars, openidVars, userVars, cronVars>>

\* ------------------------------------------ fixtures: accounts and reminders

\* What the row of a user holds of its secrets before any reset: the bcrypt
\* hash of its password and no reset token.
NoSecrets == [password |-> "$2a$14$hash.of.other", password_reset_token |-> ""]

\* The reminder cron before RegisterReminderCron.
NotRegistered == [registered |-> FALSE]

\* tasks: task 3 is done, task 4 is of user3
reminder_tasks ==
    { [ID |-> 1, CreatedByID |-> 1, Done |-> FALSE],
      [ID |-> 2, CreatedByID |-> 2, Done |-> FALSE],
      [ID |-> 3, CreatedByID |-> 1, Done |-> TRUE],
      [ID |-> 4, CreatedByID |-> 3, Done |-> FALSE] }

\* task_assignees, in the order of the table: user1 is creator and assignee
\* of task 1.
task_assignees ==
    <<[task_id |-> 1, user_id |-> 1], [task_id |-> 1, user_id |-> 2],
      [task_id |-> 2, user_id |-> 3], [task_id |-> 4, user_id |-> 1]>>

\* users.email_reminders_enabled
email_reminders_enabled == {1, 2}

\* task_reminders, in the order of the table. Reminder is the DATETIME of
\* the column, which has no zone: the seconds on the wall clock since
\* midnight of the day of the first run.
task_reminders ==
    <<[ID |-> 1, TaskID |-> 1, Reminder |-> 30],
      [ID |-> 2, TaskID |-> 1, Reminder |-> 59],
      [ID |-> 3, TaskID |-> 2, Reminder |-> 60],
      [ID |-> 4, TaskID |-> 3, Reminder |-> 45],
      [ID |-> 5, TaskID |-> 4, Reminder |-> 120],
      [ID |-> 6, TaskID |-> 2, Reminder |-> 3630],
      [ID |-> 7, TaskID |-> 1, Reminder |-> 3720]>>

\* ------------------------------------------------- sharing: specifications

EmptyTables ==
    [namespaces |-> {}, lists |-> {}, buckets |-> {}, tasks |-> {},
     task_relations |-> {}, task_attachments |-> {}, labels |-> {},
     label_tasks |-> {}]

NoCall == [op |-> "", err |-> ""]

vars == <<shareVars, linkVars, last, importVars, labelVars, raceVars, openidVars, userVars, cronVars>>

Init ==
    /\ db = EmptyTables
    /\ tx = EmptyTables
    /\ files = {}
    /\ seq = 0
    /\ todo = <<>>
    /\ labels = {}
    /\ buckets = {}
    /\ needsDefaultBucket = FALSE
    /\ result = "idle"
    /\ files_before = {}
    /\ label_tasks = EmptyBag
    /\ sessions = [s \in Sessions |-> Idle]
    /\ authOpenID = NotLoaded
    /\ keyvalue = EmptyStore
    /\ built = 0
    /\ user_rows = [id \in { u.ID : u \in users } |-> NoSecrets]
    /\ token_seq = 0
    /\ spent = {}
    /\ cron = NotRegistered
    /\ selected = [id \in { task_reminders[i].ID : i \in DOMAIN task_reminders } |-> 0]
    /\ users_lists = EmptyBag
    /\ users_namespaces = EmptyBag
    /\ team_namespaces = EmptyBag
    /\ link_shares = {}
    /\ share_seq = 0
    /\ last = NoCall

\* SpecShare: every Create, Update and Delete of the three relations, with
\* existing and missing users, lists, namespaces and teams, and valid and
\* invalid rights.
Usernames == {"user1", "user2", "user500"}
ShareListIDs == {1, 2, 2000}
ShareNamespaceIDs == {1, 2000}
ShareTeamIDs == {1, 2000}

ListUsers == [Username : Usernames, ListID : ShareListIDs, Right : RightInputs]
NamespaceUsers ==
    [Username : Usernames, NamespaceID : ShareNamespaceIDs, Right : RightInputs]
TeamNamespaces ==
    [TeamID : ShareTeamIDs, NamespaceID : ShareNamespaceIDs, Right : RightInputs]

Doer == UserAuth(1)

NextShare ==
    \/ \E lu \in ListUsers : ListUserCreate(lu, Doer)
    \/ \E lu \in ListUsers : ListUserUpdate(lu, Doer)
    \/ \E lu \in ListUsers : lu.Right = RightRead /\ ListUserDelete(lu, Doer)
    \/ \E nu \in NamespaceUsers : NamespaceUserCreate(nu, Doer)
    \/ \E nu \in NamespaceUsers : NamespaceUserUpdate(nu, Doer)
    \/ \E nu \in NamespaceUsers : nu.Right = RightRead /\ NamespaceUserDelete(nu, Doer)
    \/ \E tn \in TeamNamespaces : TeamNamespaceCreate(tn, Doer)
    \/ \E tn \in TeamNamespaces : TeamNamespaceUpdate(tn, Doer)
    \/ \E tn \in TeamNamespaces : tn.Right = RightRead /\ TeamNamespaceDelete(tn, Doer)

SpecShare == Init /\ [][NextShare]_vars

\* SpecCan: the rights checks of the sharing endpoints, for every user and for
\* link shares, in every state the relations of list 1 and namespace 1 reach
\* for user2 and user3 (user3 is the member of team 1).
CanUsernames == {"user2", "user3"}
CanListUsers == [Username : CanUsernames, ListID : {1}, Right : {RightRead, RightWrite, RightAdmin}]
CanNamespaceUsers ==
    [Username : CanUsernames, NamespaceID : {1}, Right : {RightRead, RightWrite, RightAdmin}]
CanTeamNamespaces ==
    [TeamID : {1}, NamespaceID : {1}, Right : {RightRead, RightWrite, RightAdmin}]

CanAuths ==
    { UserAuth(u.ID) : u \in users }
    \cup { LinkAuth(1, 1, RightWrite), LinkAuth(1, 1, RightAdmin),
           LinkAuth(2, 2, RightAdmin) }

NextCan ==
    \/ \E lu \in CanListUsers : ListUserCreate(lu, Doer)
    \/ \E lu \in CanListUsers : lu.Right = RightRead /\ ListUserDelete(lu, Doer)
    \/ \E nu \in CanNamespaceUsers : NamespaceUserCreate(nu, Doer)
    \/ \E nu \in CanNamespaceUsers : nu.Right = RightRead /\ NamespaceUserDelete(nu, Doer)
    \/ \E tn \in CanTeamNamespaces : TeamNamespaceCreate(tn, Doer)
    \/ \E tn \in CanTeamNamespaces : tn.Right = RightRead /\ TeamNamespaceDelete(tn, Doer)
    \/ \E lu \in CanListUsers, a \in CanAuths,
          op \in {"ListUser.CanCreate", "ListUser.CanDelete", "ListUser.CanUpdate"} :
          lu.Right = RightRead /\ ListUserCan(op, lu, a)
    \/ \E tn \in CanTeamNamespaces, a \in CanAuths,
          op \in {"TeamNamespace.CanCreate", "TeamNamespace.CanDelete",
                  "TeamNamespace.CanUpdate"} :
          tn.Right = RightRead /\ TeamNamespaceCan(op, tn, a)
    \/ \E lu \in CanListUsers, listID \in {1, 2}, a \in CanAuths :
          lu.Right = RightRead /\ lu.Username = "user2"
              /\ ListUserReadAll([lu EXCEPT !.ListID = listID], a)
    \/ \E nu \in CanNamespaceUsers, a \in CanAuths :
          nu.Right = RightRead /\ nu.Username = "user2" /\ NamespaceUserReadAll(nu, a)
    \/ \E tn \in CanTeamNamespaces, a \in CanAuths :
          tn.Right = RightRead /\ TeamNamespaceReadAll(tn, a)

SpecCan == Init /\ [][NextCan]_vars

\* ------------------------------------------------- LinkSharing (link_shares)

SharingTypeUnknown == 0
SharingTypeWithoutPassword == 1
SharingTypeWithPassword == 2

\* A LinkSharing value: a row of link_shares, or the object of a call.
LinkSharing(id, hash, listID, right, sharingType, password, sharedByID) ==
    [ID |-> id, Hash |-> hash, ListID |-> listID, Right |-> right,
     SharingType |-> sharingType, Password |-> password, SharedByID |-> sharedByID]

\* The principal a request authenticated with a share's token acts as.
AuthOfShare(row) == LinkAuth(row.ID, row.ListID, row.Right)

\* user.HashPassword: the bcrypt hash of a password
HashPassword(password) ==
    CASE password = "1234" -> "$2a$14$hash.of.1234"
      [] password = "someWrongPassword" -> "$2a$14$hash.of.someWrongPassword"
      [] OTHER -> "$2a$14$hash.of.other"

\* bcrypt.CompareHashAndPassword: nil, the mismatch error, or the error of a
\* value that is no bcrypt hash
CompareHashAndPassword(hash, password) ==
    IF hash \notin {HashPassword("1234"), HashPassword("someWrongPassword"),
                    HashPassword("x")}
    THEN "ErrHashTooShort"
    ELSE IF hash = HashPassword(password) THEN ""
    ELSE "ErrMismatchedHashAndPassword"

\* xorm adds every non-zero field of the object handed to Get and Delete to
\* the conditions of the statement.
IntColumns == {"ID", "ListID", "Right", "SharingType", "SharedByID"}
StringColumns == {"Hash", "Password"}

AutoCondition(bean, row) ==
    /\ \A c \in IntColumns : bean[c] = 0 \/ row[c] = bean[c]
    /\ \A c \in StringColumns : bean[c] = "" \/ row[c] = bean[c]

\* The error LinkSharing.Create returns, "" when none; hash is the string
\* MakeRandomString returned.
LinkSharingCreateErr(share, hash) ==
    IF ~isValid(share.Right) THEN "ErrInvalidRight"
    ELSE IF \E r \in link_shares : r.Hash = hash THEN "ErrUniqueConstraint"
    ELSE ""

\* LinkSharing.Create keeping the sharer and the type the caller supplied.
LinkSharingCreateRow_CallerFields(share, a, hash) ==
    LinkSharing(share_seq + 1, hash, share.ListID, share.Right,
                IF share.SharingType # SharingTypeUnknown THEN share.SharingType
                ELSE IF share.Password # "" THEN SharingTypeWithPassword
                ELSE SharingTypeWithoutPassword,
                IF share.Password # "" THEN HashPassword(share.Password) ELSE "",
                IF share.SharedByID # 0 THEN share.SharedByID ELSE GetID(a))

\* The row LinkSharing.Create hands to Insert.
LinkSharingCreateRow(share, a, hash) ==
    LinkSharing(share_seq + 1, hash, share.ListID, share.Right,
                IF share.Password # "" THEN SharingTypeWithPassword
                ELSE SharingTypeWithoutPassword,
                IF share.Password # "" THEN HashPassword(share.Password) ELSE "",
                GetID(a))

\* The object of LinkSharing.Create when it returns.
LinkSharingCreateOut(share, a, hash) ==
    LET err == LinkSharingCreateErr(share, hash)
        row == LinkSharingCreateRow(share, a, hash)
    IN IF err = "ErrInvalidRight" THEN share
       ELSE IF err # "" THEN [row EXCEPT !.ID = share.ID, !.Password = ""]
       ELSE [row EXCEPT !.Password = ""]

LinkSharingCreate(share, a, hash) ==
    LET err == LinkSharingCreateErr(share, hash)
    IN /\ link_shares' = IF err = "" THEN link_shares \cup {LinkSharingCreateRow(share, a, hash)}
                         ELSE link_shares
       /\ share_seq' = IF err = "" THEN share_seq + 1 ELSE share_seq
       /\ last' = [op |-> "LinkSharing.Create", auth |-> a, in |-> share,
                   err |-> err, out |-> {LinkSharingCreateOut(share, a, hash)}]
       /\ UNCHANGED <<shareVars, importVars, labelVars, raceVars, openidVars, userVars, cronVars>>

\* The statement of ReadOne and of Delete with the id as its only condition.
LinkSharingByID_IDOnly(share) == { r \in link_shares : r.ID = share.ID }

\* The rows the statement of ReadOne and of Delete selects.
LinkSharingByID(share) ==
    { r \in link_shares : r.ID = share.ID /\ AutoCondition(share, r) }

\* ReadOne handing the row back as stored.
LinkSharingReadOneOut_Stored(share) ==
    IF LinkSharingByID(share) = {} THEN share
    ELSE CHOOSE r \in LinkSharingByID(share) : TRUE

LinkSharingReadOneOut(share) ==
    IF LinkSharingByID(share) = {} THEN share
    ELSE [(CHOOSE r \in LinkSharingByID(share) : TRUE) EXCEPT !.Password = ""]

LinkSharingReadOne(share, a) ==
    /\ last' = [op |-> "LinkSharing.ReadOne", auth |-> a, in |-> share,
                err |-> IF LinkSharingByID(share) = {} THEN "ErrListShareDoesNotExist"
                        ELSE "",
                out |-> {LinkSharingReadOneOut(share)}]
    /\ UNCHANGED <<shareVars, linkVars, importVars, labelVars, raceVars, openidVars, userVars, cronVars>>

LinkSharingReadAllOut(share, a) ==
    IF ~ListCanRead(share.ListID, a) THEN {}
    ELSE { [r EXCEPT !.Password = ""] : r \in { x \in link_shares : x.ListID = share.ListID } }

LinkSharingReadAll(share, a) ==
    /\ last' = [op |-> "LinkSharing.ReadAll", auth |-> a, in |-> share,
                err |-> IF ~ListCanRead(share.ListID, a) THEN "ErrGenericForbidden"
                        ELSE "",
                out |-> LinkSharingReadAllOut(share, a)]
    /\ UNCHANGED <<shareVars, linkVars, importVars, labelVars, raceVars, openidVars, userVars, cronVars>>

LinkSharingDelete(share, a) ==
    /\ link_shares' = link_shares \ LinkSharingByID(share)
    /\ last' = [op |-> "LinkSharing.Delete", auth |-> a, in |-> share,
                err |-> "", out |-> {}]
    /\ UNCHANGED <<shareVars, share_seq, importVars, labelVars, raceVars, openidVars, userVars, cronVars>>

\* GetLinkShareByHash
GetLinkShareByHash(hash) ==
    IF \E r \in link_shares : r.Hash = hash
    THEN CHOOSE r \in link_shares : r.Hash = hash
    ELSE LinkSharing(0, "", 0, 0, 0, "", 0)

\* VerifyLinkSharePassword without the test for an empty password.
VerifyLinkSharePassword_NoEmptyTest(share, password) ==
    LET err == CompareHashAndPassword(share.Password, password)
    IN IF err = "ErrMismatchedHashAndPassword" THEN "ErrLinkSharePasswordInvalid"
       ELSE err

\* VerifyLinkSharePassword, "" for nil
VerifyLinkSharePassword(share, password) ==
    IF password = "" THEN "ErrLinkSharePasswordRequired"
    ELSE LET err == CompareHashAndPassword(share.Password, password)
         IN IF err = "ErrMismatchedHashAndPassword" THEN "ErrLinkSharePasswordInvalid"
            ELSE err

\* The link share authentication endpoint.
AuthenticateLinkShareErr(hash, password) ==
    LET share == GetLinkShareByHash(hash)
    IN IF share.ID = 0 THEN "ErrListShareDoesNotExist"
       ELSE IF share.SharingType = SharingTypeWithPassword
            THEN VerifyLinkSharePassword(share, password)
       ELSE ""

AuthenticateLinkShare(hash, password) ==
    LET share == GetLinkShareByHash(hash)
        err == AuthenticateLinkShareErr(hash, password)
    IN /\ last' = [op |-> "AuthenticateLinkShare", hash |-> hash,
                   password |-> password, err |-> err,
                   share |-> share,
                   token |-> IF err = "" THEN {AuthOfShare(share)} ELSE {}]
       /\ UNCHANGED <<shareVars, linkVars, importVars, labelVars, raceVars, openidVars, userVars, cronVars>>

\* --------------------------------------------- link shares: specification

\* Link share ids are handed out up to MaxShareID.
MaxShareID == 2

Hashes ==
    { "aaaaaaaaaaaaaaaaaaaaaaaaaaaaaaaaaaaaaaaa",
      "bbbbbbbbbbbbbbbbbbbbbbbbbbbbbbbbbbbbbbbb" }

Passwords == {"", "1234", "someWrongPassword"}
LinkListIDs == {1, 2}

\* The objects of Create: a list, a right and a password or none; the caller
\* leaves the other fields at their zero.
NewShares ==
    { LinkSharing(0, "", l, r, SharingTypeUnknown, pw, 0) :
        l \in LinkListIDs, r \in RightInputs, pw \in {"", "1234"} }

\* Objects of Create in which the caller filled in the hash, the type and
\* the sharer as well, the type at odds with the password.
CallerHash == "cccccccccccccccccccccccccccccccccccccccc"
ForgedShares ==
    { LinkSharing(0, CallerHash, 1, RightRead, st, pw, 3) :
        st \in {SharingTypeWithoutPassword, SharingTypeWithPassword},
        pw \in {"", "1234"} }

\* The objects of ReadOne and Delete: the share id and the list id of the
\* route (0 when the caller names no list).
ShareRefs ==
    { LinkSharing(id, "", l, 0, SharingTypeUnknown, "", 0) :
        id \in 1..MaxShareID, l \in LinkListIDs \cup {0} }

\* The principals: user1 (owner of namespace 1), user3 (no access), and the
\* link share of every row.
LinkAuths == {UserAuth(1), UserAuth(3)} \cup { AuthOfShare(r) : r \in link_shares }

NextLink ==
    \/ \E share \in NewShares \cup ForgedShares, a \in LinkAuths \ {UserAuth(3)},
          hash \in Hashes :
          share_seq < MaxShareID /\ LinkSharingCreate(share, a, hash)
    \/ \E share \in ShareRefs : LinkSharingReadOne(share, UserAuth(1))
    \/ \E share \in ShareRefs, a \in LinkAuths :
          share.ID = 1 /\ share.ListID # 0 /\ LinkSharingReadAll(share, a)
    \/ \E share \in ShareRefs : LinkSharingDelete(share, UserAuth(1))
    \/ \E hash \in Hashes, password \in Passwords :
          AuthenticateLinkShare(hash, password)

SpecLink == Init /\ [][NextLink]_vars

\* SpecRight: the seven operations that validate a right, each with valid and
\* invalid rights and with existing and missing users, parents and teams.
RightListUsers == [Username : {"user2", "user500"}, ListID : {1, 2000}, Right : RightInputs]
RightNamespaceUsers ==
    [Username : {"user2", "user500"}, NamespaceID : {1, 2000}, Right : RightInputs]
RightTeamNamespaces == [TeamID : {1, 2000}, NamespaceID : {1, 2000}, Right : RightInputs]
RightNewShares ==
    { LinkSharing(0, "", 1, r, SharingTypeUnknown, "", 0) : r \in RightInputs }

NextRight ==
    \/ \E lu \in RightListUsers : ListUserCreate(lu, Doer)
    \/ \E lu \in RightListUsers : ListUserUpdate(lu, Doer)
    \/ \E nu \in RightNamespaceUsers : NamespaceUserCreate(nu, Doer)
    \/ \E nu \in RightNamespaceUsers : NamespaceUserUpdate(nu, Doer)
    \/ \E tn \in RightTeamNamespaces : TeamNamespaceCreate(tn, Doer)
    \/ \E tn \in RightTeamNamespaces : TeamNamespaceUpdate(tn, Doer)
    \/ \E share \in RightNewShares, hash \in Hashes :
          link_shares = {} /\ LinkSharingCreate(share, Doer, hash)

SpecRight == Init /\ [][NextRight]_vars

\* ------------------------------------------------- InsertFromStructure
\* The importer walks the structure in one session s.  tx is what s sees,
\* db what is committed; files is the file storage, which takes no session.
\* todo is the rest of the walk: the pending loop bodies in the order the
\* nested loops run them, each with the id of the row it hangs under.

Item(kind, in, parent) == [kind |-> kind, in |-> in, parent |-> parent]
Items(kind, ins, parent) == [i \in 1..Len(ins) |-> Item(kind, ins[i], parent)]

Running(kind) == result = "running" /\ todo # <<>> /\ Head(todo).kind = kind

\* s.Rollback() and return err
Rollback(err) ==
    /\ tx' = db
    /\ result' = err
    /\ todo' = <<>>
    /\ labels' = {}
    /\ buckets' = {}
    /\ needsDefaultBucket' = FALSE
    /\ UNCHANGED db

\* The first bucket of a list: the one the list was created with.
DefaultBucket(listID) ==
    LET ids == { b.ID : b \in { r \in tx.buckets : r.ListID = listID } }
    IN CHOOSE id \in ids : \A other \in ids : id <= other

\* A further import starts only while fewer than MaxSeq ids are handed out.
MaxSeq == 6

\* The call: a new session on the committed state, the labels map empty.
InsertFromStructure(str) ==
    /\ result # "running"
    /\ seq < MaxSeq
    /\ result' = "running"
    /\ tx' = db
    /\ todo' = Items("namespace", str, 0)
    /\ labels' = {}
    /\ buckets' = {}
    /\ needsDefaultBucket' = FALSE
    /\ files_before' = files
    /\ UNCHANGED <<db, files, seq, shareVars, linkVars, last, labelVars, raceVars, openidVars, userVars, cronVars>>

\* n.Create(s, user), then the loop over n.Lists
CreateNamespace(ok) ==
    /\ Running("namespace")
    /\ IF ~ok THEN Rollback("ErrNamespaceCreate") /\ UNCHANGED seq
       ELSE /\ tx' = [tx EXCEPT !.namespaces = @ \cup {[ID |-> seq + 1]}]
            /\ seq' = seq + 1
            /\ todo' = Items("list", Head(todo).in.Lists, seq + 1) \o Tail(todo)
            /\ UNCHANGED <<db, result, labels, buckets, needsDefaultBucket>>
    /\ UNCHANGED <<files, files_before, shareVars, linkVars, last, labelVars, raceVars, openidVars, userVars, cronVars>>

\* l.NamespaceID = n.ID; l.Create(s, user): the list and its first bucket.
\* The rest of the loop body follows: background, buckets, tasks, and the
\* removal of the default bucket.
CreateList(ok) ==
    /\ Running("list")
    /\ IF ~ok THEN Rollback("ErrListCreate") /\ UNCHANGED seq
       ELSE LET l == Head(todo).in
                listID == seq + 1
            IN /\ tx' = [tx EXCEPT
                     !.lists = @ \cup {[ID |-> listID, NamespaceID |-> Head(todo).parent,
                                        BackgroundFileID |-> 0]},
                     !.buckets = @ \cup {[ID |-> seq + 2, ListID |-> listID]}]
               /\ seq' = seq + 2
               /\ buckets' = {}
               /\ needsDefaultBucket' = FALSE
               /\ todo' = (IF l.Background THEN <<Item("background", l, listID)>>
                           ELSE <<>>)
                          \o Items("bucket", l.Buckets, listID)
                          \o Items("task", l.Tasks, listID)
                          \o <<Item("default_bucket", l, listID)>>
                          \o Tail(todo)
               /\ UNCHANGED <<db, result, labels>>
    /\ UNCHANGED <<files, files_before, shareVars, linkVars, last, labelVars, raceVars, openidVars, userVars, cronVars>>

\* files.Create(backgroundFile, "", size, user), which stores the file
\* outside s, then models.SetListBackground(s, l.ID, file)
CreateBackground(fileOk, setOk) ==
    /\ Running("background")
    /\ IF ~fileOk THEN Rollback("ErrFileCreate") /\ UNCHANGED <<files, seq>>
       ELSE /\ files' = files \cup {[ID |-> seq + 1]}
            /\ seq' = seq + 1
            /\ IF ~setOk THEN Rollback("ErrSetListBackground")
               ELSE /\ tx' = [tx EXCEPT !.lists =
                          { IF r.ID = Head(todo).parent
                            THEN [r EXCEPT !.BackgroundFileID = seq + 1] ELSE r : r \in @ }]
                    /\ todo' = Tail(todo)
                    /\ UNCHANGED <<db, result, labels, buckets, needsDefaultBucket>>
    /\ UNCHANGED <<files_before, shareVars, linkVars, last, labelVars, raceVars, openidVars, userVars, cronVars>>

\* bucket.ID = 0; bucket.ListID = l.ID; bucket.Create(s, user);
\* buckets[oldID] = bucket
CreateBucket(ok) ==
    /\ Running("bucket")
    /\ IF ~ok THEN Rollback("ErrBucketCreate") /\ UNCHANGED seq
       ELSE LET oldID == Head(todo).in
            IN /\ tx' = [tx EXCEPT !.buckets =
                     @ \cup {[ID |-> seq + 1, ListID |-> Head(todo).parent]}]
               /\ seq' = seq + 1
               /\ buckets' = { b \in buckets : b.old # oldID }
                             \cup {[old |-> oldID, new |-> seq + 1]}
               /\ todo' = Tail(todo)
               /\ UNCHANGED <<db, result, labels, needsDefaultBucket>>
    /\ UNCHANGED <<files, files_before, shareVars, linkVars, last, labelVars, raceVars, openidVars, userVars, cronVars>>

\* The bucket id a task is created with: that of the bucket made for its
\* old bucket id, 0 if there is none.
RemapBucketID(bucketID) ==
    IF \E b \in buckets : b.old = bucketID
    THEN (CHOOSE b \in buckets : b.old = bucketID).new
    ELSE 0

\* Task.Create: a task without bucket goes to the first bucket of its list.
TaskRow(id, listID, bucketID) ==
    [ID |-> id, ListID |-> listID,
     BucketID |-> IF bucketID = 0 THEN DefaultBucket(listID) ELSE bucketID]

\* The head of the loop over the tasks: the bucket of the task, t.Create.
\* Relations, attachments and labels of the task follow.
CreateTask(ok) ==
    /\ Running("task")
    /\ LET t == Head(todo).in
           exists == \E b \in buckets : b.old = t.BucketID
           bucketID == RemapBucketID(t.BucketID)
       IN IF ~ok THEN Rollback("ErrTaskCreate") /\ UNCHANGED seq
          ELSE /\ needsDefaultBucket' = (needsDefaultBucket \/ ~exists \/ bucketID = 0)
               /\ tx' = [tx EXCEPT !.tasks =
                     @ \cup {TaskRow(seq + 1, Head(todo).parent, bucketID)}]
               /\ seq' = seq + 1
               /\ todo' = Items("related", t.RelatedTasks, seq + 1)
                          \o Items("attachment", t.Attachments, seq + 1)
                          \o Items("label", t.Labels, seq + 1)
                          \o Tail(todo)
               /\ UNCHANGED <<db, result, labels, buckets>>
    /\ UNCHANGED <<files, files_before, shareVars, linkVars, last, labelVars, raceVars, openidVars, userVars, cronVars>>

ListOfTask(taskID) == (CHOOSE t \in tx.tasks : t.ID = taskID).ListID

\* rt.Create(s, user) for a related task without id, then taskRel.Create
CreateRelatedTask(taskOk, relOk) ==
    /\ Running("related")
    /\ LET rt == Head(todo).in
           taskID == Head(todo).parent
           create == rt.ID = 0
           otherID == IF create THEN seq + 1 ELSE rt.ID
       IN IF create /\ ~taskOk THEN Rollback("ErrTaskCreate") /\ UNCHANGED seq
          ELSE IF ~relOk THEN Rollback("ErrTaskRelationCreate") /\ UNCHANGED seq
          ELSE /\ tx' = [tx EXCEPT
                     !.tasks = IF create
                               THEN @ \cup {TaskRow(otherID, ListOfTask(taskID), rt.BucketID)}
                               ELSE @,
                     !.task_relations = @ \cup {[TaskID |-> taskID, OtherTaskID |-> otherID]}]
               /\ seq' = IF create THEN seq + 1 ELSE seq
               /\ todo' = Tail(todo)
               /\ UNCHANGED <<db, result, labels, buckets, needsDefaultBucket>>
    /\ UNCHANGED <<files, files_before, shareVars, linkVars, last, labelVars, raceVars, openidVars, userVars, cronVars>>

\* a.NewAttachment(s, fr, name, size, user) for an attachment with content:
\* the file goes to the file storage, the attachment row into s.
CreateAttachment(ok) ==
    /\ Running("attachment")
    /\ IF ~Head(todo).in
       THEN /\ todo' = Tail(todo)
            /\ UNCHANGED <<db, tx, files, seq, result, labels, buckets, needsDefaultBucket>>
       ELSE IF ~ok THEN Rollback("ErrNewAttachment") /\ UNCHANGED <<files, seq>>
       ELSE /\ files' = files \cup {[ID |-> seq + 1]}
            /\ tx' = [tx EXCEPT !.task_attachments =
                  @ \cup {[ID |-> seq + 2, TaskID |-> Head(todo).parent, FileID |-> seq + 1]}]
            /\ seq' = seq + 2
            /\ todo' = Tail(todo)
            /\ UNCHANGED <<db, result, labels, buckets, needsDefaultBucket>>
    /\ UNCHANGED <<files_before, shareVars, linkVars, last, labelVars, raceVars, openidVars, userVars, cronVars>>

\* LabelTask.Create, "" for nil
LabelTaskCreateErr(lt, ok) ==
    IF lt \in tx.label_tasks THEN "ErrLabelIsAlreadyOnTask"
    ELSE IF ~ok THEN "ErrLabelTaskCreate"
    ELSE ""

\* labels[label.Title+label.HexColor], label.Create(s, user) when the key is
\* new, then lt.Create(s, user)
CreateLabel(labelOk, relOk) ==
    /\ Running("label")
    /\ LET label == Head(todo).in
           key == label.Title \o label.HexColor
           exists == \E lb \in labels : lb.key = key
           labelID == IF exists THEN (CHOOSE lb \in labels : lb.key = key).ID ELSE seq + 1
           lt == [LabelID |-> labelID, TaskID |-> Head(todo).parent]
       IN IF ~exists /\ ~labelOk THEN Rollback("ErrLabelCreate") /\ UNCHANGED seq
          ELSE IF LabelTaskCreateErr(lt, relOk) # ""
          THEN Rollback(LabelTaskCreateErr(lt, relOk)) /\ UNCHANGED seq
          ELSE /\ tx' = [tx EXCEPT
                     !.labels = IF exists THEN @
                                ELSE @ \cup {[ID |-> labelID, Title |-> label.Title,
                                              HexColor |-> label.HexColor]},
                     !.label_tasks = @ \cup {lt}]
               /\ labels' = IF exists THEN labels
                            ELSE labels \cup {[key |-> key, ID |-> labelID]}
               /\ seq' = IF exists THEN seq ELSE seq + 1
               /\ todo' = Tail(todo)
               /\ UNCHANGED <<db, result, buckets, needsDefaultBucket>>
    /\ UNCHANGED <<files, files_before, shareVars, linkVars, last, labelVars, raceVars, openidVars, userVars, cronVars>>

\* Bucket.Delete, "" for nil: the last bucket of a list stays.
BucketDeleteErr(bucketID, listID, ok) ==
    IF { b \in tx.buckets : b.ListID = listID } = {[ID |-> bucketID, ListID |-> listID]}
    THEN "ErrCannotRemoveLastBucket"
    ELSE IF ~ok THEN "ErrBucketDelete"
    ELSE ""

\* The default bucket taken as extra space when a task needed it.
DefaultBucketIsExtra_WhenNeeded == needsDefaultBucket

\* if !needsDefaultBucket: all tasks brought their own bucket with them
DefaultBucketIsExtra == ~needsDefaultBucket

\* The end of the loop over the lists: unless a task needed the default
\* bucket, b.ReadAll(s, user, "", 1, 1) and buckets[0].Delete(s, user).
RemoveDefaultBucket(readOk, deleteOk) ==
    /\ Running("default_bucket")
    /\ LET listID == Head(todo).parent
           first == DefaultBucket(listID)
       IN IF ~DefaultBucketIsExtra
          THEN /\ todo' = Tail(todo)
               /\ UNCHANGED <<db, tx, result, labels, buckets, needsDefaultBucket>>
          ELSE IF ~readOk THEN Rollback("ErrBucketReadAll")
          ELSE IF BucketDeleteErr(first, listID, deleteOk) # ""
          THEN Rollback(BucketDeleteErr(first, listID, deleteOk))
          ELSE /\ tx' = [tx EXCEPT !.buckets = { b \in @ : b.ID # first }]
               /\ todo' = Tail(todo)
               /\ UNCHANGED <<db, result, labels, buckets, needsDefaultBucket>>
    /\ UNCHANGED <<files, files_before, seq, shareVars, linkVars, last, labelVars, raceVars, openidVars, userVars, cronVars>>

\* return s.Commit()
Commit(ok) ==
    /\ result = "running"
    /\ todo = <<>>
    /\ IF ~ok THEN Rollback("ErrCommit")
       ELSE /\ db' = tx
            /\ result' = ""
            /\ UNCHANGED <<tx, todo, labels, buckets, needsDefaultBucket>>
    /\ UNCHANGED <<files, files_before, seq, shareVars, linkVars, last, labelVars, raceVars, openidVars, userVars, cronVars>>

\* SpecImport: imports of one namespace with one or two lists.

LabelInputs ==
    {[Title |-> "a", HexColor |-> "bc"], [Title |-> "ab", HexColor |-> "c"]}
NewRelatedTask == [ID |-> 0, BucketID |-> 0]
TaskInputs ==
    { [BucketID |-> 5, RelatedTasks |-> <<>>, Attachments |-> <<>>, Labels |-> <<>>],
      [BucketID |-> 0, RelatedTasks |-> <<NewRelatedTask>>, Attachments |-> <<TRUE>>,
       Labels |-> <<>>],
      [BucketID |-> 5, RelatedTasks |-> <<NewRelatedTask>>, Attachments |-> <<FALSE>>,
       Labels |-> <<[Title |-> "a", HexColor |-> "bc"]>>],
      [BucketID |-> 7, RelatedTasks |-> <<>>, Attachments |-> <<TRUE>>,
       Labels |-> <<[Title |-> "a", HexColor |-> "bc"], [Title |-> "a", HexColor |-> "bc"]>>] }
ListInputs ==
    { [Background |-> bg, Buckets |-> bs, Tasks |-> ts] :
        bg \in BOOLEAN, bs \in {<<>>, <<5>>},
        ts \in {<<>>} \cup { <<t>> : t \in TaskInputs } }
TwoLists ==
    LET t == [BucketID |-> 5, RelatedTasks |-> <<>>, Attachments |-> <<>>,
              Labels |-> <<[Title |-> "a", HexColor |-> "bc"]>>]
        u == [t EXCEPT !.Labels = <<[Title |-> "ab", HexColor |-> "c"]>>]
    IN <<[Background |-> FALSE, Buckets |-> <<5>>, Tasks |-> <<t, t>>],
         [Background |-> TRUE, Buckets |-> <<>>, Tasks |-> <<u>>]>>
Structures ==
    { <<[Lists |-> <<l>>]>> : l \in ListInputs } \cup {<<[Lists |-> TwoLists]>>}

NextImport ==
    \/ \E str \in Structures : InsertFromStructure(str)
    \/ \E ok \in BOOLEAN : CreateNamespace(ok)
    \/ \E ok \in BOOLEAN : CreateList(ok)
    \/ \E fileOk, setOk \in BOOLEAN : CreateBackground(fileOk, setOk)
    \/ \E ok \in BOOLEAN : CreateBucket(ok)
    \/ \E ok \in BOOLEAN : CreateTask(ok)
    \/ \E taskOk, relOk \in BOOLEAN : CreateRelatedTask(taskOk, relOk)
    \/ \E ok \in BOOLEAN : CreateAttachment(ok)
    \/ \E labelOk, relOk \in BOOLEAN : CreateLabel(labelOk, relOk)
    \/ \E readOk, deleteOk \in BOOLEAN : RemoveDefaultBucket(readOk, deleteOk)
    \/ \E ok \in BOOLEAN : Commit(ok)

SpecImport == Init /\ [][NextImport]_vars

\* ------------------------------------------------ LabelTask (label_tasks)
\* The tasks and labels the label operations work on; label 3 belongs to
\* user2 and is on no task user1 can see.
tasks_table == { [ID |-> 1, ListID |-> 1], [ID |-> 2, ListID |-> 1] }
labels_table ==
    { [ID |-> 1, CreatedByID |-> 1], [ID |-> 2, CreatedByID |-> 1],
      [ID |-> 3, CreatedByID |-> 2] }

\* s.Exist(&LabelTask{LabelID: lt.LabelID, TaskID: lt.TaskID})
LabelTaskExists(lt) ==
    \E r \in DOMAIN label_tasks : r.label_id = lt.LabelID /\ r.task_id = lt.TaskID

\* LabelTask.Create inserting without the look for an existing row.
LabelTaskCreate_NoExistCheck(lt, a) ==
    /\ label_tasks' = BagInsert(label_tasks, [label_id |-> lt.LabelID, task_id |-> lt.TaskID])
    /\ last' = [op |-> "LabelTask.Create", task |-> lt.TaskID, label |-> lt.LabelID,
                err |-> ""]
    /\ UNCHANGED <<shareVars, linkVars, importVars, raceVars, openidVars, userVars, cronVars>>

LabelTaskCreate(lt, a) ==
    LET err == IF LabelTaskExists(lt) THEN "ErrLabelIsAlreadyOnTask" ELSE ""
    IN /\ label_tasks' =
              IF err = ""
              THEN BagInsert(label_tasks, [label_id |-> lt.LabelID, task_id |-> lt.TaskID])
              ELSE label_tasks
       /\ last' = [op |-> "LabelTask.Create", task |-> lt.TaskID, label |-> lt.LabelID,
                   err |-> err]
       /\ UNCHANGED <<shareVars, linkVars, importVars, raceVars, openidVars, userVars, cronVars>>

\* s.Delete(&LabelTask{LabelID: lt.LabelID, TaskID: lt.TaskID})
LabelTaskDelete(lt, a) ==
    /\ label_tasks' = BagDeleteRows(label_tasks,
           { r \in DOMAIN label_tasks :
               r.label_id = lt.LabelID /\ r.task_id = lt.TaskID })
    /\ last' = [op |-> "LabelTask.Delete", task |-> lt.TaskID, label |-> lt.LabelID,
                err |-> ""]
    /\ UNCHANGED <<shareVars, linkVars, importVars, raceVars, openidVars, userVars, cronVars>>

\* The ids in S in ascending order.
RECURSIVE Ascending(_)
Ascending(S) ==
    IF S = {} THEN <<>>
    ELSE LET m == CHOOSE x \in S : \A y \in S : x <= y
         IN <<m>> \o Ascending(S \ {m})

Range(q) == { q[i] : i \in DOMAIN q }

\* getLabelsByTaskIDs for one task: its labels, each once, by id
LabelsOfTask(taskID) ==
    Ascending({ l.ID : l \in { x \in labels_table :
                  \E r \in DOMAIN label_tasks :
                      r.label_id = x.ID /\ r.task_id = taskID } })

\* Label.hasAccessToLabel
hasAccessToLabel(labelID, a) ==
    \E l \in labels_table : l.ID = labelID /\ l.CreatedByID = GetID(a)

\* The bag of the rows <<label, task>> for the labels of a sequence, a row
\* for every element.
RECURSIVE RowsFor(_, _)
RowsFor(q, taskID) ==
    IF q = <<>> THEN EmptyBag
    ELSE BagInsert(RowsFor(Tail(q), taskID), [label_id |-> Head(q), task_id |-> taskID])

\* Task.updateTaskLabels for the task t, whose Labels are the labels found
\* on it, and the passed labels: the error, the rows of label_tasks and the
\* Labels of t when it returns.
updateTaskLabels(t, creator, newLabels) ==
    IF Len(newLabels) = 0 /\ Len(t.Labels) > 0
    THEN [err |-> "",
          rows |-> BagDeleteRows(label_tasks,
                       { r \in DOMAIN label_tasks : r.task_id = t.ID }),
          Labels |-> t.Labels]
    ELSE IF Len(newLabels) = 0
    THEN [err |-> "", rows |-> label_tasks, Labels |-> t.Labels]
    ELSE LET oldLabels == Range(t.Labels)
             labelsToDelete == oldLabels \ Range(newLabels)
             kept == SelectSeq(t.Labels, LAMBDA l : l \in Range(newLabels))
             added == SelectSeq(newLabels, LAMBDA l : l \notin oldLabels)
             refused == { j \in DOMAIN added :
                            \/ ~\E l \in labels_table : l.ID = added[j]
                            \/ ~hasAccessToLabel(added[j], creator) }
             first == CHOOSE j \in refused : \A k \in refused : j <= k
             err == IF refused = {} THEN ""
                    ELSE IF ~\E l \in labels_table : l.ID = added[first]
                    THEN "ErrLabelDoesNotExist"
                    \* user, _ := creator.(*user.User) is nil for a link share
                    \* and user.ID panics
                    ELSE IF IsLinkSharing(creator)
                    THEN "panic: nil pointer dereference"
                    ELSE "ErrUserHasNoAccessToLabel"
             afterDelete ==
                 BagDeleteRows(label_tasks,
                     { r \in DOMAIN label_tasks :
                         r.label_id \in labelsToDelete /\ r.task_id = t.ID })
         IN IF err # "" THEN [err |-> err, rows |-> label_tasks, Labels |-> t.Labels]
            ELSE [err |-> "", rows |-> afterDelete (+) RowsFor(added, t.ID),
                  Labels |-> kept \o added]

\* LabelTaskBulk.Create: the task, the labels on it, updateTaskLabels
LabelTaskBulkCreateResult(ltb, a) ==
    IF ~\E t \in tasks_table : t.ID = ltb.TaskID
    THEN [err |-> "ErrTaskDoesNotExist", rows |-> label_tasks, Labels |-> <<>>]
    ELSE updateTaskLabels(
             [ID |-> ltb.TaskID, Labels |-> LabelsOfTask(ltb.TaskID)], a, ltb.Labels)

LabelTaskBulkCreate(ltb, a) ==
    LET res == LabelTaskBulkCreateResult(ltb, a)
    IN /\ label_tasks' = res.rows
       /\ last' = [op |-> "LabelTaskBulk.Create", task |-> ltb.TaskID, auth |-> a,
                   labels |-> ltb.Labels, err |-> res.err, taskLabels |-> res.Labels]
       /\ UNCHANGED <<shareVars, linkVars, importVars, raceVars, openidVars, userVars, cronVars>>

\* SpecLabel: labels 1 and 2 put on and taken off tasks 1 and 2 one by one,
\* and bulk calls with up to MaxBulkLabels labels, repeated ones and label 3
\* among them, for the two tasks and for a task that does not exist.
MaxBulkLabels == 2

LabelTasks == [LabelID : {1, 2}, TaskID : {1, 2}]
LabelTaskBulks ==
    [TaskID : {1, 2, 99},
     Labels : UNION { [1..n -> {1, 2, 3}] : n \in 0..MaxBulkLabels }]

\* The principals of the bulk calls: user1 and a link share of list 1 with
\* write access.
BulkAuths == {Doer, LinkAuth(1, 1, RightWrite)}

NextLabel ==
    \/ \E lt \in LabelTasks : LabelTaskCreate(lt, Doer)
    \/ \E lt \in LabelTasks : LabelTaskDelete(lt, Doer)
    \/ \E ltb \in LabelTaskBulks, a \in BulkAuths : LabelTaskBulkCreate(ltb, a)

SpecLabel == Init /\ [][NextLabel]_vars

\* ------------------------------------------------------------ CalDAV codec

\* A time.Time is an instant: the day counted from 1970-01-01, the second of
\* the day and the nanosecond of the second. time.Time{} is 0001-01-01.
ZeroTime == [day |-> -719162, sec |-> 0, nsec |-> 0]
Epoch == [day |-> 0, sec |-> 0, nsec |-> 0]

IsZero(t) == t = ZeroTime

\* t.Unix() > 0 and t.Unix() == 0
UnixPositive(t) == t.day > 0 \/ (t.day = 0 /\ t.sec > 0)
UnixIsZero(t) == t.day = 0 /\ t.sec = 0

\* The date of a day, as time.Format finds it.
CivilFromDays(day) ==
    LET z == day + 719468
        era == z \div 146097
        doe == z - era * 146097
        yoe == (doe - doe \div 1460 + doe \div 36524 - doe \div 146096) \div 365
        doy == doe - (365 * yoe + yoe \div 4 - yoe \div 100)
        mp == (5 * doy + 2) \div 153
        d == doy - (153 * mp + 2) \div 5 + 1
        m == IF mp < 10 THEN mp + 3 ELSE mp - 9
    IN [Y |-> yoe + era * 400 + (IF m <= 2 THEN 1 ELSE 0), M |-> m, D |-> d]

\* The day of a date, as time.Parse finds it.
DaysFromCivil(Y, M, D) ==
    LET y == IF M <= 2 THEN Y - 1 ELSE Y
        era == y \div 400
        yoe == y - era * 400
        doy == (153 * (IF M > 2 THEN M - 3 ELSE M + 9) + 2) \div 5 + D - 1
        doe == yoe * 365 + yoe \div 4 - yoe \div 100 + doy
    IN era * 146097 + doe - 719468

\* A string that holds a date or a date and a time: its digits by field and
\* its form, "datetimeZ" for 20060102T150405Z, "datetime" for
\* 20060102T150405, "date" for 20060102. NoString is the empty string and
\* a string of any other form has the form "other".
NoString == [form |-> ""]
OtherString == [form |-> "other"]

\* const DateFormat = `20060102T150405`
DateFormat == "datetime"

\* makeCalDavTimeFromTimeStamp: ts.In(time.UTC).Format(DateFormat) + "Z"
makeCalDavTimeFromTimeStamp(ts) ==
    LET c == CivilFromDays(ts.day)
    IN [form |-> DateFormat \o "Z", Y |-> c.Y, M |-> c.M, D |-> c.D,
        h |-> ts.sec \div 3600, m |-> (ts.sec % 3600) \div 60, s |-> ts.sec % 60]

\* caldavTimeToTimestamp without the format for a date of eight characters:
\* the date is read under DateFormat, which refuses it.
caldavTimeToTimestamp_NoDateFormat(tstring) ==
    IF tstring.form = "" THEN ZeroTime
    ELSE IF tstring.form \notin {"datetime", "datetimeZ"} THEN ZeroTime
    ELSE [day |-> DaysFromCivil(tstring.Y, tstring.M, tstring.D),
          sec |-> tstring.h * 3600 + tstring.m * 60 + tstring.s, nsec |-> 0]

\* caldavTimeToTimestamp: the zero time for the empty string and for a
\* string that time.Parse refuses under the format chosen for it.
caldavTimeToTimestamp(tstring) ==
    IF tstring.form = "" THEN ZeroTime
    ELSE IF tstring.form \notin {"datetime", "datetimeZ", "date"} THEN ZeroTime
    ELSE IF tstring.form = "date"
    THEN [day |-> DaysFromCivil(tstring.Y, tstring.M, tstring.D), sec |-> 0, nsec |-> 0]
    ELSE [day |-> DaysFromCivil(tstring.Y, tstring.M, tstring.D),
          sec |-> tstring.h * 3600 + tstring.m * 60 + tstring.s, nsec |-> 0]

\* A time.Duration: seconds and nanoseconds, or the least or the greatest
\* Duration when the difference does not fit (sat -1 or 1).
MaxDurationHours == 2562048
NoDuration == [sat |-> 0, sec |-> 0, nsec |-> 0]

\* t.Sub(u); the zero time is further from every other time here than a
\* Duration holds.
Sub(t, u) ==
    IF t = u THEN NoDuration
    ELSE IF IsZero(t) THEN [sat |-> -1, sec |-> 0, nsec |-> 0]
    ELSE IF IsZero(u) THEN [sat |-> 1, sec |-> 0, nsec |-> 0]
    ELSE LET ns == t.nsec - u.nsec
             s == (t.day - u.day) * 86400 + (t.sec - u.sec) - (IF ns < 0 THEN 1 ELSE 0)
         IN [sat |-> 0, sec |-> s, nsec |-> IF ns < 0 THEN ns + 1000000000 ELSE ns]

\* t.Add(d) for a Duration that fits
Add(t, d) ==
    LET ns == t.nsec + d.nsec
        s == t.sec + d.sec + ns \div 1000000000
    IN [day |-> t.day + s \div 86400, sec |-> s % 86400, nsec |-> ns % 1000000000]

\* strconv.FormatFloat(duration.Hours(), 'f', 0, 64): the hours rounded to
\* the nearest whole, a half to the even one.
RoundedHours(d) ==
    IF d.sat # 0 THEN d.sat * MaxDurationHours
    ELSE LET q == d.sec \div 3600
             r == d.sec % 3600
         IN IF r < 1800 \/ (r = 1800 /\ d.nsec = 0 /\ q % 2 = 0) THEN q ELSE q + 1

\* formatDuration: the minutes are Minutes() less Hours()*60 and the seconds
\* Seconds() less Minutes()*60, each nothing.
formatDuration(duration) == [H |-> RoundedHours(duration), M |-> 0, S |-> 0]

\* A string that holds a duration: "PT" and then the output of
\* formatDuration (form "PT"), or the form of Duration.String (form "go").
\* time.ParseDuration reads the second and refuses the first.
ParseDuration(dstring) ==
    IF dstring.form = "go"
    THEN [sat |-> 0, sec |-> dstring.H * 3600 + dstring.M * 60 + dstring.S, nsec |-> 0]
    ELSE NoDuration

DurationPositive(d) == d.sat = 1 \/ (d.sat = 0 /\ (d.sec > 0 \/ (d.sec = 0 /\ d.nsec > 0)))

\* A text is the sequence of its characters; LF, CR and BS stand for the
\* line feed, the carriage return and the backslash.
RECURSIVE EscapeLineBreaks(_)
\* regexp `\r?\n` replaced by `\n` (a backslash and an n)
EscapeLineBreaks(q) ==
    IF q = <<>> THEN <<>>
    ELSE IF Len(q) >= 2 /\ q[1] = "CR" /\ q[2] = "LF"
    THEN <<"BS", "n">> \o EscapeLineBreaks(SubSeq(q, 3, Len(q)))
    ELSE IF q[1] = "LF" THEN <<"BS", "n">> \o EscapeLineBreaks(Tail(q))
    ELSE <<q[1]>> \o EscapeLineBreaks(Tail(q))

RECURSIVE ReplaceAll(_, _, _, _)
\* strings.ReplaceAll(q, a b, to) for a pair of characters a b
ReplaceAll(q, a, b, to) ==
    IF q = <<>> THEN <<>>
    ELSE IF Len(q) >= 2 /\ q[1] = a /\ q[2] = b
    THEN <<to>> \o ReplaceAll(SubSeq(q, 3, Len(q)), a, b, to)
    ELSE <<q[1]>> \o ReplaceAll(Tail(q), a, b, to)

\* A content line NAME:value
Line(name, value) == [name |-> name, value |-> value]

\* getCaldavColor
getCaldavColor(color) ==
    IF color = "" THEN <<>>
    ELSE <<Line("X-APPLE-CALENDAR-COLOR", color \o "FF"),
           Line("X-OUTLOOK-COLOR", color \o "FF"),
           Line("X-FUNAMBOL-COLOR", color \o "FF")>>

\* The lines of one todo in ParseTodos. The todos here have no organizer,
\* no related todo, no priority and no recurrence, whose lines are left out.
TodoLines(t) ==
    <<Line("BEGIN", "VTODO"),
      Line("UID", IF t.UID = ""
                  THEN [stamp |-> makeCalDavTimeFromTimeStamp(t.Timestamp),
                        Sha256 |-> t.Summary]
                  ELSE t.UID),
      Line("DTSTAMP", makeCalDavTimeFromTimeStamp(t.Timestamp)),
      Line("SUMMARY", t.Summary)>>
    \o getCaldavColor(t.Color)
    \o (IF UnixPositive(t.Start)
        THEN <<Line("DTSTART", makeCalDavTimeFromTimeStamp(t.Start))>>
             \o (IF t.Duration # NoDuration /\ UnixIsZero(t.DueDate)
                 THEN <<Line("DURATION",
                            [form |-> "PT"] @@ formatDuration(t.Duration))>>
                 ELSE <<>>)
        ELSE <<>>)
    \o (IF UnixPositive(t.End)
        THEN <<Line("DTEND", makeCalDavTimeFromTimeStamp(t.End))>> ELSE <<>>)
    \o (IF t.Description # <<>>
        THEN <<Line("DESCRIPTION", EscapeLineBreaks(t.Description))>> ELSE <<>>)
    \o (IF UnixPositive(t.Completed)
        THEN <<Line("COMPLETED", makeCalDavTimeFromTimeStamp(t.Completed)),
               Line("STATUS", "COMPLETED")>>
        ELSE <<>>)
    \o (IF UnixPositive(t.DueDate)
        THEN <<Line("DUE", makeCalDavTimeFromTimeStamp(t.DueDate))>> ELSE <<>>)
    \o (IF UnixPositive(t.Created)
        THEN <<Line("CREATED", makeCalDavTimeFromTimeStamp(t.Created))>> ELSE <<>>)
    \o <<Line("LAST-MODIFIED", makeCalDavTimeFromTimeStamp(t.Updated)),
         Line("END", "VTODO")>>

RECURSIVE AllTodoLines(_)
AllTodoLines(todos) ==
    IF todos = <<>> THEN <<>>
    ELSE TodoLines(Head(todos)) \o AllTodoLines(Tail(todos))

\* ParseTodos: the calendar of the todos
ParseTodos(config, todos) ==
    <<Line("BEGIN", "VCALENDAR"), Line("VERSION", "2.0"), Line("METHOD", "PUBLISH"),
      Line("X-PUBLISHED-TTL", "PT4H"), Line("X-WR-CALNAME", config.Name),
      Line("PRODID", config.ProdID)>>
    \o getCaldavColor(config.Color)
    \o AllTodoLines(todos)
    \o <<Line("END", "VCALENDAR")>>

\* The Todo that GetCaldavTodosForTasks makes of a task
TodoOfTask(t) ==
    [Timestamp |-> t.Updated, UID |-> t.UID, Summary |-> t.Title,
     Description |-> t.Description, Completed |-> t.DoneAt, Priority |-> t.Priority,
     Start |-> t.StartDate, End |-> t.EndDate, Created |-> t.Created,
     Updated |-> t.Updated, DueDate |-> t.DueDate,
     Duration |-> Sub(t.EndDate, t.StartDate), Color |-> ""]

GetCaldavTodosForTasks(list, listTasks) ==
    ParseTodos([Name |-> list.Title, ProdID |-> "Vikunja Todo App", Color |-> ""],
               [i \in DOMAIN listTasks |-> TodoOfTask(listTasks[i])])

\* parsed.Components[0]: the lines of the first component of the calendar
FirstComponent(content) ==
    LET begins == { i \in DOMAIN content :
                      content[i].name = "BEGIN" /\ content[i].value # "VCALENDAR" }
        b == CHOOSE i \in begins : \A j \in begins : i <= j
        ends == { i \in DOMAIN content : i > b /\ content[i].name = "END" }
        e == CHOOSE i \in ends : \A j \in ends : i <= j
    IN SubSeq(content, b + 1, e - 1)

\* task[name] of the map that ParseTaskFromVTODO fills from the properties
\* of the component, a later property over an earlier one of its name;
\* missing is the value of a key that is not in the map.
Property(props, name, missing) ==
    LET at == { i \in DOMAIN props : props[i].name = name }
    IN IF at = {} THEN missing
       ELSE props[CHOOSE i \in at : \A j \in at : j <= i].value

ParseTaskFromVTODO(content) ==
    LET task == FirstComponent(content)
        duration == ParseDuration(Property(task, "DURATION", NoString))
        StartDate == caldavTimeToTimestamp(Property(task, "DTSTART", NoString))
    IN [UID |-> Property(task, "UID", ""),
        Title |-> Property(task, "SUMMARY", ""),
        Description |->
            ReplaceAll(ReplaceAll(Property(task, "DESCRIPTION", <<>>), "BS", ",", ","),
                       "BS", "n", "LF"),
        Priority |-> 0,
        DueDate |-> caldavTimeToTimestamp(Property(task, "DUE", NoString)),
        Updated |-> caldavTimeToTimestamp(Property(task, "DTSTAMP", NoString)),
        StartDate |-> StartDate,
        DoneAt |-> caldavTimeToTimestamp(Property(task, "COMPLETED", NoString)),
        Done |-> Property(task, "STATUS", "") = "COMPLETED",
        EndDate |-> IF DurationPositive(duration) /\ ~IsZero(StartDate)
                    THEN Add(StartDate, duration) ELSE ZeroTime,
        Created |-> ZeroTime]

\* A task is written as a calendar and the calendar read as a task. The
\* codec keeps nothing between two calls: each call is looked at on its own,
\* as the first one.
SerializeAndParse(list, task) ==
    LET content == GetCaldavTodosForTasks(list, <<task>>)
    IN /\ last = NoCall
       /\ last' = [op |-> "caldav.SerializeAndParse", in |-> task, content |-> content,
                   out |-> ParseTaskFromVTODO(content)]
       /\ UNCHANGED <<shareVars, linkVars, importVars, labelVars, raceVars, openidVars, userVars, cronVars>>

\* A calendar is read as a task and the task written as a calendar.
ParseAndSerialize(list, content) ==
    LET task == ParseTaskFromVTODO(content)
    IN /\ last = NoCall
       /\ last' = [op |-> "caldav.ParseAndSerialize", in |-> content, task |-> task,
                   out |-> GetCaldavTodosForTasks(list, <<task>>)]
       /\ UNCHANGED <<shareVars, linkVars, importVars, labelVars, raceVars, openidVars, userVars, cronVars>>

\* SpecCaldav: tasks and todos without recurrence, with descriptions of up
\* to MaxDescriptionLen characters, line feeds, backslashes and commas among
\* them, and with each time unset, at the epoch or set, to the second or
\* between two seconds.
MaxDescriptionLen == 2

Noon == [day |-> 18937, sec |-> 45296, nsec |-> 0]
NextDay == [day |-> 18938, sec |-> 3600, nsec |-> 500000000]

Descriptions ==
    UNION { [1..n -> {"a", "LF", "BS", "n", ","}] : n \in 0..MaxDescriptionLen }

CaldavList == [Title |-> "list1"]

Tasks ==
    { [UID |-> "uid1", Title |-> title, Description |-> d, Priority |-> 0,
       DueDate |-> due, Updated |-> Noon, StartDate |-> start, EndDate |-> end,
       DoneAt |-> doneAt, Done |-> ~IsZero(doneAt), Created |-> Noon] :
        title \in {"task1"}, d \in Descriptions, due \in {ZeroTime, Epoch, NextDay},
        start \in {ZeroTime, Noon}, end \in {ZeroTime, NextDay},
        doneAt \in {ZeroTime, NextDay} }

\* A VTODO as a client sends it, each property there or not.
Optional(name, value) == IF value = NoString THEN <<>> ELSE <<Line(name, value)>>

VTODOs ==
    { <<Line("BEGIN", "VCALENDAR"), Line("VERSION", "2.0"), Line("BEGIN", "VTODO"),
        Line("UID", "uid1"), Line("DTSTAMP", makeCalDavTimeFromTimeStamp(Noon)),
        Line("SUMMARY", "todo1")>>
      \o (IF d = <<>> THEN <<>> ELSE <<Line("DESCRIPTION", d)>>)
      \o Optional("DTSTART", start) \o Optional("DUE", due) \o Optional("DTEND", end)
      \o Optional("DURATION", duration) \o Optional("COMPLETED", completed)
      \o (IF status = "" THEN <<>> ELSE <<Line("STATUS", status)>>)
      \o <<Line("END", "VTODO"), Line("END", "VCALENDAR")>> :
        d \in {<<>>, <<"a", "BS", "n", "b">>, <<"a", "BS", ",", "b">>},
        start \in {NoString, makeCalDavTimeFromTimeStamp(Noon),
                   [makeCalDavTimeFromTimeStamp(Noon) EXCEPT !.form = "datetime"],
                   [form |-> "date", Y |-> 2021, M |-> 11, D |-> 6], OtherString},
        due \in {NoString, makeCalDavTimeFromTimeStamp(NextDay)},
        end \in {NoString, makeCalDavTimeFromTimeStamp(NextDay)},
        duration \in {NoString, [form |-> "PT", H |-> 1, M |-> 0, S |-> 0],
                      [form |-> "go", H |-> 1, M |-> 0, S |-> 0]},
        completed \in {NoString, makeCalDavTimeFromTimeStamp(NextDay)},
        status \in {"", "COMPLETED", "NEEDS-ACTION"} }

NextCaldav ==
    \/ \E task \in Tasks : SerializeAndParse(CaldavList, task)
    \/ \E content \in VTODOs : ParseAndSerialize(CaldavList, content)

SpecCaldav == Init /\ [][NextCaldav]_vars

\* ------------------------------------------- concurrent ListUser.Create

\* ListUser.Create in a session of its own, up to the look for an existing
\* row: the session returns the error, or has passed the look and stands
\* before the insert. The look reads the committed rows.
ListUserCreateCheck(s, lu, a) ==
    LET u == GetUserByUsername(lu.Username)
        err == ListUserCreateErr(lu)
    IN /\ sessions[s].pc = "idle"
       /\ sessions' = [sessions EXCEPT ![s] =
              IF err = "" THEN [pc |-> "insert", lu |-> lu, uid |-> u.ID] ELSE Idle]
       /\ last' = IF err = "" THEN last
                  ELSE [op |-> "ListUser.Create", parent |-> lu.ListID,
                        principal |-> lu.Username, principalID |-> u.ID,
                        right |-> lu.Right, err |-> err, event |-> "",
                        touched |-> FALSE]
       /\ UNCHANGED <<shareVars, linkVars, importVars, labelVars, openidVars, userVars, cronVars>>

\* s.Insert(lu) in the session: the row is written and not yet committed.
ListUserCreateInsert(s) ==
    /\ sessions[s].pc = "insert"
    /\ sessions' = [sessions EXCEPT ![s].pc = "commit"]
    /\ UNCHANGED <<shareVars, linkVars, last, importVars, labelVars, openidVars, userVars, cronVars>>

\* The event, the touch of the list and the commit of the session. No
\* index of users_lists is unique: the row is stored beside any other.
ListUserCreateCommit(s, a) ==
    LET lu == sessions[s].lu
    IN /\ sessions[s].pc = "commit"
       /\ users_lists' = BagInsert(users_lists, ListUserRow(lu, sessions[s].uid))
       /\ sessions' = [sessions EXCEPT ![s] = Idle]
       /\ last' = [op |-> "ListUser.Create", parent |-> lu.ListID,
                   principal |-> lu.Username, principalID |-> sessions[s].uid,
                   right |-> lu.Right, err |-> "",
                   event |-> "ListSharedWithUserEvent", touched |-> TRUE]
       /\ UNCHANGED <<users_namespaces, team_namespaces, linkVars, importVars,
                      labelVars, openidVars, userVars, cronVars>>

\* SpecRace: NumSessions sessions that create relations of list 1 with
\* user2 and user3 at any pace, and deletes between them, while
\* users_lists holds less than MaxRaceRows rows.
MaxRaceRows == 3

RaceListUsers == [ListID : {1}, Username : {"user2", "user3"}, Right : {RightRead, RightWrite}]

NextRace ==
    \/ \E s \in Sessions, lu \in RaceListUsers :
          BagCardinality(users_lists) < MaxRaceRows /\ ListUserCreateCheck(s, lu, Doer)
    \/ \E s \in Sessions : ListUserCreateInsert(s)
    \/ \E s \in Sessions : ListUserCreateCommit(s, Doer)
    \/ \E lu \in RaceListUsers :
          (\A s \in Sessions : sessions[s].pc = "idle") /\ ListUserDelete(lu, Doer)

SpecRace == Init /\ [][NextRace]_vars

\* ------------------------------------------------ OpenID provider cache

\* A name is the sequence of its characters. strings.ToLower on them:
ToLower(c) == IF c = "A" THEN "a" ELSE IF c = "B" THEN "b" ELSE c

\* getKeyFromName: the lower-case name without what is not in a-z0-9
getKeyFromName(name) ==
    SelectSeq([i \in DOMAIN name |-> ToLower(name[i])],
              LAMBDA c : c \in {"a", "b", "1", "2"})

\* getProviderFromMap, when oidc.NewProvider has answered
getProviderFromMap(pi) == [Name |-> pi.name, Key |-> getKeyFromName(pi.name)]

\* keyvalue.Put("openid_provider_"+k, provider)
PutProvider(kv, k, provider) ==
    [kv EXCEPT !.openid_provider_ =
        { e \in @ : e[1] # k } \cup {<<k, provider>>}]

RECURSIVE PutProviders(_, _)
PutProviders(kv, providers) ==
    IF providers = <<>> THEN kv
    ELSE PutProviders(PutProvider(kv, Head(providers).Key, Head(providers)),
                      Tail(providers))

\* GetAllProviders. The provider at failAt is the one oidc.NewProvider fails
\* for, none when failAt is 0. The providers returned, the error, the store
\* and the number of providers built when it returns.
GetAllProviders(kv, n, failAt) ==
    IF ~authOpenID.enabled
    THEN [providers |-> <<>>, err |-> "", kv |-> kv, built |-> n]
    ELSE IF kv.openid_providers # {}
    THEN [providers |-> CHOOSE ps \in kv.openid_providers : TRUE, err |-> "",
          kv |-> kv, built |-> n]
    ELSE LET rawProviders == authOpenID.providers
             providers == [i \in DOMAIN rawProviders |->
                              getProviderFromMap(rawProviders[i])]
         IN IF rawProviders = <<>>
            THEN [providers |-> <<>>, err |-> "", kv |-> kv, built |-> n]
            ELSE IF failAt \in DOMAIN rawProviders
            THEN [providers |-> <<>>, err |-> "ErrNewProvider",
                  kv |-> PutProviders(kv, SubSeq(providers, 1, failAt - 1)),
                  built |-> n + failAt - 1]
            ELSE [providers |-> providers, err |-> "",
                  kv |-> [PutProviders(kv, providers) EXCEPT
                             !.openid_providers = {providers}],
                  built |-> n + Len(providers)]

\* keyvalue.Get("openid_provider_" + key): the providers under the key
StoredProvider(kv, key) == { e[2] : e \in { x \in kv.openid_provider_ : x[1] = key } }

NoProvider == [Name |-> <<>>, Key |-> <<>>]

\* GetProvider: GetAllProviders is called when a provider is stored under
\* the key, and the key is read again after it.
GetProvider(key, failAt) ==
    LET exists == StoredProvider(keyvalue, key) # {}
        all == IF exists THEN GetAllProviders(keyvalue, built, failAt)
               ELSE [providers |-> <<>>, err |-> "", kv |-> keyvalue, built |-> built]
        p == StoredProvider(all.kv, key)
    IN IF all.err # ""
       THEN [provider |-> NoProvider, err |-> all.err, kv |-> all.kv, built |-> all.built]
       ELSE [provider |-> IF p = {} THEN NoProvider ELSE CHOOSE x \in p : TRUE,
             err |-> "", kv |-> all.kv, built |-> all.built]

\* The process starts: the configuration is loaded and the store is empty.
LoadConfig(enabled, rawProviders) ==
    /\ ~authOpenID.loaded
    /\ authOpenID' = [loaded |-> TRUE, enabled |-> enabled, providers |-> rawProviders]
    /\ keyvalue' = EmptyStore
    /\ UNCHANGED <<built, shareVars, linkVars, last, importVars, labelVars, raceVars, userVars, cronVars>>

GetAllProvidersCall(failAt) ==
    LET r == GetAllProviders(keyvalue, built, failAt)
    IN /\ authOpenID.loaded
       /\ keyvalue' = r.kv
       /\ built' = r.built
       /\ last' = [op |-> "GetAllProviders", out |-> r.providers, err |-> r.err]
       /\ UNCHANGED <<authOpenID, shareVars, linkVars, importVars, labelVars, raceVars, userVars, cronVars>>

GetProviderCall(key, failAt) ==
    LET r == GetProvider(key, failAt)
    IN /\ authOpenID.loaded
       /\ keyvalue' = r.kv
       /\ built' = r.built
       /\ last' = [op |-> "GetProvider", key |-> key, out |-> r.provider, err |-> r.err]
       /\ UNCHANGED <<authOpenID, shareVars, linkVars, importVars, labelVars, raceVars, userVars, cronVars>>

\* SpecOpenID: a configuration with OpenID on or off and no, one or two
\* providers; lookups of their keys and of a key of no provider; and
\* oidc.NewProvider failing for any one provider or none, while less than
\* MaxBuilt providers have been built.
MaxBuilt == 4

RawProviderOne == [name |-> <<"A", "b", " ", "1">>]
RawProviderTwo == [name |-> <<"B", "-", "2">>]
RawProviderLists ==
    {<<>>, <<RawProviderOne>>, <<RawProviderTwo>>, <<RawProviderOne, RawProviderTwo>>,
     <<RawProviderTwo, RawProviderOne>>}
ProviderKeys == {<<"a", "b", "1">>, <<"b", "2">>, <<"a">>}
FailAts == 0..2

NextOpenID ==
    \/ \E enabled \in BOOLEAN, raw \in RawProviderLists : LoadConfig(enabled, raw)
    \/ \E failAt \in FailAts : built < MaxBuilt /\ GetAllProvidersCall(failAt)
    \/ \E key \in ProviderKeys, failAt \in FailAts :
          built < MaxBuilt /\ GetProviderCall(key, failAt)

SpecOpenID == Init /\ [][NextOpenID]_vars

\* ------------------------------------------- password reset (package user)
\* Each call runs in a session that is committed when it returns nil and
\* rolled back otherwise. HashPassword is taken to succeed.

\* utils.MakeRandomString(400): the n-th token made. Two tokens made are
\* taken to differ.
MakeRandomString(n) == "token" \o ToString(n)

\* s.Where("password_reset_token = ?", token).Get(user): the id of the row
\* found, 0 when there is none
UserWithResetToken(token) ==
    LET found == { id \in DOMAIN user_rows : user_rows[id].password_reset_token = token }
    IN IF found = {} THEN 0 ELSE CHOOSE id \in found : \A other \in found : id <= other

\* ResetPassword without the refusal of an empty token.
ResetPasswordErr_NoTokenCheck(reset) ==
    IF reset.NewPassword = "" THEN "ErrNoUsernamePassword"
    ELSE IF UserWithResetToken(reset.Token) = 0 THEN "ErrInvalidPasswordResetToken"
    ELSE ""

\* ResetPassword up to the lookup of the token
ResetPasswordErr(reset) ==
    IF reset.NewPassword = "" THEN "ErrNoUsernamePassword"
    ELSE IF reset.Token = "" THEN "ErrNoPasswordResetToken"
    ELSE IF UserWithResetToken(reset.Token) = 0 THEN "ErrInvalidPasswordResetToken"
    ELSE ""

\* notifications.Notify when the mailer is enabled: mail is "off", "sent"
\* or "failed".
NotifyErr(mail) == IF mail = "failed" THEN "ErrNotify" ELSE ""

ResetPassword(reset, mail) ==
    LET id == UserWithResetToken(reset.Token)
        err == IF ResetPasswordErr(reset) # "" THEN ResetPasswordErr(reset)
               ELSE NotifyErr(mail)
    IN /\ user_rows' =
              IF err = ""
              THEN [user_rows EXCEPT ![id] =
                       [password |-> HashPassword(reset.NewPassword),
                        password_reset_token |-> ""]]
              ELSE user_rows
       /\ spent' = IF err = "" THEN spent \cup {reset.Token} ELSE spent
       /\ last' = [op |-> "user.ResetPassword", token |-> reset.Token,
                   newPassword |-> reset.NewPassword, err |-> err,
                   userID |-> IF err = "" THEN id ELSE 0]
       /\ UNCHANGED <<token_seq, shareVars, linkVars, importVars, labelVars, raceVars,
                      openidVars, cronVars>>

\* GetUserWithEmail: the id of the user with the email, 0 when there is none
GetUserWithEmail(email) ==
    IF \E u \in users : u.Email = email
    THEN (CHOOSE u \in users : u.Email = email).ID
    ELSE 0

\* RequestUserPasswordResetToken: the rows of users after the update that
\* stores the token made
RequestUserPasswordResetToken(id) ==
    [user_rows EXCEPT ![id].password_reset_token = MakeRandomString(token_seq + 1)]

\* A further token is made only while fewer than MaxTokens have been.
MaxTokens == 3

RequestUserPasswordResetTokenByEmail(tr, mail) ==
    LET id == GetUserWithEmail(tr.Email)
        made == tr.Email # "" /\ id # 0
        err == IF tr.Email = "" THEN "ErrNoUsernamePassword"
               ELSE IF id = 0 THEN "ErrUserDoesNotExist"
               ELSE NotifyErr(mail)
    IN /\ token_seq < MaxTokens
       /\ user_rows' = IF err = "" THEN RequestUserPasswordResetToken(id) ELSE user_rows
       /\ token_seq' = IF made THEN token_seq + 1 ELSE token_seq
       /\ last' = [op |-> "user.RequestUserPasswordResetTokenByEmail",
                   email |-> tr.Email, err |-> err, userID |-> id]
       /\ UNCHANGED <<spent, shareVars, linkVars, importVars, labelVars, raceVars,
                      openidVars, cronVars>>

\* SpecReset: tokens requested for user1 and user2 and for unknown emails,
\* resets with every token made, a token never made, no token and no
\* password, the mailer off, sending or failing.
Mails == {"off", "sent", "failed"}
TokenRequests ==
    [Email : {"", "user1@example.com", "user2@example.com", "nobody@example.com"}]
PasswordResets ==
    [Token : {"", "never-made"} \cup { MakeRandomString(n) : n \in 1..MaxTokens },
     NewPassword : {"", "1234", "someWrongPassword"}]

NextReset ==
    \/ \E tr \in TokenRequests, mail \in Mails :
          RequestUserPasswordResetTokenByEmail(tr, mail)
    \/ \E reset \in PasswordResets, mail \in Mails : ResetPassword(reset, mail)

SpecReset == Init /\ [][NextReset]_vars

\* ------------------------------------------------ reminder cron (models)
\* A time.Time here is the seconds since midnight UTC of the day of the
\* first run, the nanoseconds of the second, and the offset in seconds of
\* its location: sec + loc is what the wall clock of the location shows.

\* time.Minute, in seconds
Minute == 60

\* utils.GetTimeWithoutNanoSeconds
GetTimeWithoutNanoSeconds(t) == [t EXCEPT !.nsec = 0]

\* t.Format(dbTimeFormat): the wall clock of the location of t to the
\* second, without a zone, as the seconds since midnight
FormatDbTime(t) == t.sec + t.loc

\* The Find of getTasksWithRemindersInTheNextMinute: the reminders of tasks
\* that are not done whose DATETIME is from the formatted now on and before
\* the formatted next minute
RemindersInTheNextMinute(now) ==
    LET from == GetTimeWithoutNanoSeconds(now)
        nextMinute == [from EXCEPT !.sec = @ + Minute]
    IN SelectSeq(task_reminders,
           LAMBDA r : /\ r.Reminder >= FormatDbTime(from)
                      /\ r.Reminder < FormatDbTime(nextMinute)
                      /\ \E t \in reminder_tasks : t.ID = r.TaskID /\ ~t.Done)

\* getTasksWithRemindersInTheNextMinute: the task id of every reminder found
getTasksWithRemindersInTheNextMinute(now) ==
    LET reminders == RemindersInTheNextMinute(now)
    IN [i \in DOMAIN reminders |-> reminders[i].TaskID]

CreatedByID(taskID) == (CHOOSE t \in reminder_tasks : t.ID = taskID).CreatedByID

\* getTaskUsersForTasks with the condition users.email_reminders_enabled:
\* a pair for every element of taskIDs whose creator is among the creators
\* found, then a pair for every row of task_assignees found
getTaskUsersForTasks(taskIDs) ==
    LET creators == { CreatedByID(taskIDs[i]) : i \in DOMAIN taskIDs }
                        \cap email_reminders_enabled
        withCreator == SelectSeq(taskIDs, LAMBDA id : CreatedByID(id) \in creators)
        assignees == SelectSeq(task_assignees,
                         LAMBDA a : /\ \E i \in DOMAIN taskIDs : taskIDs[i] = a.task_id
                                    /\ a.user_id \in email_reminders_enabled)
    IN IF Len(taskIDs) = 0 THEN <<>>
       ELSE [i \in DOMAIN withCreator |->
                [Task |-> withCreator[i], User |-> CreatedByID(withCreator[i])]]
            \o [i \in DOMAIN assignees |->
                [Task |-> assignees[i].task_id, User |-> assignees[i].user_id]]

\* RegisterReminderCron: nothing is scheduled unless email reminders and the
\* mailer are enabled. first is the time.Now() of the first run, local the
\* offset of the zone of the process then.
RegisterReminderCron(emailReminders, mailer, first, local) ==
    /\ ~cron.registered
    /\ cron' = IF emailReminders /\ mailer
               THEN [registered |-> TRUE, next |-> first.sec, nsec |-> first.nsec,
                     local |-> local, runs |-> 0, changes |-> 0]
               ELSE cron
    /\ last' = [op |-> "RegisterReminderCron", err |-> "",
                scheduled |-> emailReminders /\ mailer]
    /\ UNCHANGED <<selected, shareVars, linkVars, importVars, labelVars, raceVars,
                   openidVars, userVars>>

\* The scheduled runs are counted up to MaxRuns.
MaxRuns == 3

\* One run of the scheduled function, the next one a minute later. failAt is
\* the notification at which notifications.Notify fails, 0 for none.
ReminderCronRun(failAt) ==
    LET now == [sec |-> cron.next, nsec |-> cron.nsec, loc |-> cron.local]
        reminders == RemindersInTheNextMinute(now)
        taskIDs == getTasksWithRemindersInTheNextMinute(now)
        taskUsers == getTaskUsersForTasks(taskIDs)
        failed == failAt \in DOMAIN taskUsers
    IN /\ cron.registered
       /\ cron.runs < MaxRuns
       /\ last' = [op |-> "ReminderCron", now |-> now,
                   from |-> FormatDbTime(GetTimeWithoutNanoSeconds(now)),
                   taskIDs |-> taskIDs,
                   notified |-> IF failed THEN SubSeq(taskUsers, 1, failAt - 1)
                                ELSE taskUsers,
                   err |-> IF failed THEN "ErrNotify" ELSE ""]
       /\ selected' = [id \in DOMAIN selected |->
                          IF \E i \in DOMAIN reminders : reminders[i].ID = id
                          THEN selected[id] + 1 ELSE selected[id]]
       /\ cron' = [cron EXCEPT !.next = @ + Minute, !.runs = @ + 1]
       /\ UNCHANGED <<shareVars, linkVars, importVars, labelVars, raceVars,
                      openidVars, userVars>>

\* The offsets the zone of the process has: standard and daylight saving
\* time, an hour apart.
LocalOffsets == {0, 3600}
MaxOffsetChanges == 1

\* Between two runs the zone of the process goes from one offset to the
\* other; time.Now() has the new offset from then on.
LocalOffsetChanges ==
    /\ cron.registered
    /\ cron.changes < MaxOffsetChanges
    /\ cron' = [cron EXCEPT !.local = CHOOSE o \in LocalOffsets : o # cron.local,
                            !.changes = @ + 1]
    /\ UNCHANGED <<selected, last, shareVars, linkVars, importVars, labelVars, raceVars,
                   openidVars, userVars>>

\* SpecCron: the cron registered with the reminders and the mailer on or
\* off, a first run at the full minute or half a minute later, on the second
\* or between two seconds, and the runs that follow it.
FirstRuns == [sec : {0, 30}, nsec : {0, 500000000}]

NextCron ==
    \/ \E emailReminders, mailer \in BOOLEAN, first \in FirstRuns, local \in LocalOffsets :
          RegisterReminderCron(emailReminders, mailer, first, local)
    \/ \E failAt \in 0..2 : ReminderCronRun(failAt)
    \/ LocalOffsetChanges

SpecCron == Init /\ [][NextCron]_vars

\* ------------------------------------------------------------------ claims

ListUserCanOps == {"ListUser.CanCreate", "ListUser.CanDelete", "ListUser.CanUpdate"}
TeamNamespaceCanOps ==
    {"TeamNamespace.CanCreate", "TeamNamespace.CanDelete", "TeamNamespace.CanUpdate"}

\* C1: whatever right a link share carries and whichever list or namespace
\* the relation names, CanCreate, CanUpdate and CanDelete of ListUser and of
\* TeamNamespace answer false to a link share.
C1_LinkShareNeverManagesSharing ==
    (last.op \in ListUserCanOps \cup TeamNamespaceCanOps /\ IsLinkSharing(last.auth))
        => last.can = FALSE

\* A link share with the Admin right on list 1 was refused on list 1.
C1_Witness ==
    /\ last.op = "ListUser.CanUpdate"
    /\ last.auth = LinkAuth(1, 1, RightAdmin)
    /\ last.parent = 1
    /\ last.can = FALSE

\* A user is Admin of a namespace as its owner or through an Admin row.
HoldsAdminOnNamespace(namespaceID, uid) ==
    \/ \E n \in namespaces : n.ID = namespaceID /\ n.OwnerID = uid
    \/ \E r \in BagToSet(users_namespaces) :
          r.namespace_id = namespaceID /\ r.user_id = uid /\ r.right = RightAdmin
    \/ \E r \in BagToSet(team_namespaces), m \in team_members :
          /\ r.namespace_id = namespaceID /\ r.right = RightAdmin
          /\ m.team_id = r.team_id /\ m.user_id = uid

\* A user is Admin of a list as its owner, through an Admin row, or as an
\* Admin of the list's namespace.
HoldsAdminOnList(listID, uid) ==
    \E l \in lists :
        /\ l.ID = listID
        /\ \/ l.OwnerID = uid
           \/ \E r \in BagToSet(users_lists) :
                 r.list_id = listID /\ r.user_id = uid /\ r.right = RightAdmin
           \/ HoldsAdminOnNamespace(l.NamespaceID, uid)

\* C3: for a registered user CanCreate, CanUpdate and CanDelete answer true
\* only to an Admin of the list (ListUser) or of the namespace
\* (TeamNamespace); Read or ReadWrite is not enough, whoever the relation
\* is about.
C3_OnlyAdminManagesSharing ==
    /\ (last.op \in ListUserCanOps /\ ~IsLinkSharing(last.auth) /\ last.can)
           => HoldsAdminOnList(last.parent, last.auth.ID)
    /\ (last.op \in TeamNamespaceCanOps /\ ~IsLinkSharing(last.auth) /\ last.can)
           => HoldsAdminOnNamespace(last.parent, last.auth.ID)

\* user3, whose highest right on list 1 is ReadWrite through its own
\* users_lists row, was refused the deletion of that row.
C3_Witness ==
    /\ last.op = "ListUser.CanDelete"
    /\ last.auth = UserAuth(3)
    /\ last.principal = "user3"
    /\ last.parent = 1
    /\ [list_id |-> 1, user_id |-> 3, right |-> RightWrite] \in BagToSet(users_lists)
    /\ ListRight(1, UserAuth(3)) = RightWrite
    /\ last.can = FALSE

\* No users_lists or users_namespaces row names the owner of its parent.
C2_NoOwnerRow ==
    /\ \A r \in BagToSet(users_lists) :
           GetListSimpleByID(r.list_id).OwnerID # r.user_id
    /\ \A r \in BagToSet(users_namespaces) :
           GetNamespaceByID(r.namespace_id).OwnerID # r.user_id

\* A Create with a valid right for the owner of an existing list or
\* namespace returns the AlreadyHasAccess error and leaves the tables as
\* they were.
C2_CreateForOwnerFails ==
    /\ ( /\ last'.op = "ListUser.Create"
         /\ isValid(last'.right)
         /\ last'.principalID # 0
         /\ GetListSimpleByID(last'.parent).OwnerID = last'.principalID )
       => (last'.err = "ErrUserAlreadyHasAccess" /\ UNCHANGED shareVars)
    /\ ( /\ last'.op = "NamespaceUser.Create"
         /\ isValid(last'.right)
         /\ last'.principalID # 0
         /\ GetNamespaceByID(last'.parent).OwnerID = last'.principalID )
       => (last'.err = "ErrUserAlreadyHasNamespaceAccess" /\ UNCHANGED shareVars)

\* C2: ListUser.Create and NamespaceUser.Create for the owner of the list /
\* namespace fail with AlreadyHasAccess and insert nothing, and after any
\* sequence of Create, Update and Delete no row names the owner of its
\* parent as its user.
C2_OwnerNeverShared == []C2_NoOwnerRow /\ [][C2_CreateForOwnerFails]_vars

\* Sharing list 1 with its owner user1 was refused.
C2_Witness ==
    /\ last.op = "ListUser.Create"
    /\ last.parent = 1
    /\ last.principalID = 1
    /\ GetListSimpleByID(1).OwnerID = 1
    /\ last.err = "ErrUserAlreadyHasAccess"

\* Every row is there once, and no two rows share parent and principal.
C4_OneRowPerPair ==
    /\ \A r \in BagToSet(users_lists) :
           /\ CopiesIn(r, users_lists) = 1
           /\ \A q \in BagToSet(users_lists) :
                  (q.list_id = r.list_id /\ q.user_id = r.user_id) => q = r
    /\ \A r \in BagToSet(users_namespaces) :
           /\ CopiesIn(r, users_namespaces) = 1
           /\ \A q \in BagToSet(users_namespaces) :
                  (q.namespace_id = r.namespace_id /\ q.user_id = r.user_id) => q = r
    /\ \A r \in BagToSet(team_namespaces) :
           /\ CopiesIn(r, team_namespaces) = 1
           /\ \A q \in BagToSet(team_namespaces) :
                  (q.namespace_id = r.namespace_id /\ q.team_id = r.team_id) => q = r

\* A Create with a valid right for a pair that has a row returns the
\* AlreadyHasAccess error and leaves the tables as they were.
C4_CreateOfExistingFails ==
    /\ ( /\ last'.op = "ListUser.Create"
         /\ isValid(last'.right)
         /\ ListUserExists(last'.parent, last'.principalID) )
       => (last'.err = "ErrUserAlreadyHasAccess" /\ UNCHANGED shareVars)
    /\ ( /\ last'.op = "NamespaceUser.Create"
         /\ isValid(last'.right)
         /\ NamespaceUserExists(last'.parent, last'.principalID) )
       => (last'.err = "ErrUserAlreadyHasNamespaceAccess" /\ UNCHANGED shareVars)
    /\ ( /\ last'.op = "TeamNamespace.Create"
         /\ isValid(last'.right)
         /\ TeamNamespaceExists(last'.parent, last'.principalID) )
       => (last'.err = "ErrTeamAlreadyHasAccess" /\ UNCHANGED shareVars)

\* C4: with requests one after another, Create of a ListUser, NamespaceUser
\* or TeamNamespace whose (parent, principal) pair has a row fails with
\* AlreadyHasAccess and inserts nothing, so each table holds at most one row
\* per pair after any series of Create, Update and Delete.
C4_UniquePerPair == []C4_OneRowPerPair /\ [][C4_CreateOfExistingFails]_vars

\* user2, who is not the owner of list 1 and has a row on it, was refused a
\* second row.
C4_Witness ==
    /\ last.op = "ListUser.Create"
    /\ last.parent = 1
    /\ last.principalID = 2
    /\ ListUserExists(1, 2)
    /\ last.err = "ErrUserAlreadyHasAccess"

\* C5: authenticating against a share with a password fails with
\* PasswordRequired for the empty password, with PasswordInvalid for a
\* password that does not match the stored hash, and succeeds for the
\* matching one; against a share without password every password succeeds.
C5_LinkShareAuthentication ==
    (last.op = "AuthenticateLinkShare" /\ last.share.ID # 0) =>
        IF last.share.SharingType = SharingTypeWithPassword
        THEN /\ last.password = "" => last.err = "ErrLinkSharePasswordRequired"
             /\ (last.password # "" /\ last.share.Password # HashPassword(last.password))
                    => last.err = "ErrLinkSharePasswordInvalid"
             /\ (last.password # "" /\ last.share.Password = HashPassword(last.password))
                    => (last.err = "" /\ last.token = {AuthOfShare(last.share)})
        ELSE last.err = "" /\ last.token = {AuthOfShare(last.share)}

\* A wrong password was refused by a share created with the password 1234.
C5_Witness ==
    /\ last.op = "AuthenticateLinkShare"
    /\ last.share \in link_shares
    /\ last.share.SharingType = SharingTypeWithPassword
    /\ last.share.Password = HashPassword("1234")
    /\ last.password = "someWrongPassword"
    /\ last.err = "ErrLinkSharePasswordInvalid"

LinkSharingReadOps == {"LinkSharing.Create", "LinkSharing.ReadOne", "LinkSharing.ReadAll"}

\* C6 as stated: no LinkSharing value Create, ReadOne or ReadAll hands back
\* carries a password, also when the operation returns an error.
C6_NoPasswordHandedBack ==
    last.op \in LinkSharingReadOps => \A v \in last.out : v.Password = ""

\* C6 as amended: no LinkSharing value carries a password after a successful
\* Create, ReadOne or ReadAll, nor after a Create whose insert failed; a
\* Create refused with InvalidRight leaves the caller's object as it was.
C6_NoPasswordAfterSuccess ==
    /\ (last.op \in LinkSharingReadOps /\ last.err \in {"", "ErrUniqueConstraint"})
           => \A v \in last.out : v.Password = ""
    /\ (last.op = "LinkSharing.Create" /\ last.err = "ErrInvalidRight")
           => last.out = {last.in}

\* ReadOne handed back a share whose row holds a password hash.
C6_Witness ==
    /\ last.op = "LinkSharing.ReadOne"
    /\ last.err = ""
    /\ \E r \in link_shares :
          /\ r.ID = last.in.ID
          /\ r.SharingType = SharingTypeWithPassword
          /\ r.Password = HashPassword("1234")
          /\ last.out = {[r EXCEPT !.Password = ""]}

\* ReadOne and ReadAll hand back shares of the list of the request only.
C7_ReadsOfTheListOnly ==
    /\ (last.op \in {"LinkSharing.ReadOne", "LinkSharing.ReadAll"}
          /\ last.in.ListID # 0 /\ last.err = "")
           => \A v \in last.out : v.ListID = last.in.ListID
    /\ ( /\ last.op = "LinkSharing.ReadOne"
         /\ last.in.ListID # 0
         /\ \E r \in link_shares : r.ID = last.in.ID /\ r.ListID # last.in.ListID )
           => (last.err = "ErrListShareDoesNotExist" /\ last.out = {last.in})

\* Delete leaves every share of another list in the table.
C7_DeleteOfTheListOnly ==
    (last'.op = "LinkSharing.Delete" /\ last'.in.ListID # 0)
        => \A r \in link_shares : r.ListID # last'.in.ListID => r \in link_shares'

\* C7: ReadOne, ReadAll and Delete act on the shares of the list the request
\* names in ListID only: with the id of a share of another list ReadOne does
\* not hand that share back and Delete leaves it in the table.
C7_ScopedToList == []C7_ReadsOfTheListOnly /\ [][C7_DeleteOfTheListOnly]_vars

\* ReadOne was asked, under list 1, for the id of a share of list 2.
C7_Witness ==
    /\ last.op = "LinkSharing.ReadOne"
    /\ last.in.ListID = 1
    /\ \E r \in link_shares : r.ID = last.in.ID /\ r.ListID = 2
    /\ last.err = "ErrListShareDoesNotExist"

\* C8: the identity of a link share principal, GetID and the id recorded as
\* the sharer of what it creates, is -shareID and so the id of no user.
C8_LinkShareIdentityNegative ==
    /\ \A r \in link_shares :
           /\ GetID(AuthOfShare(r)) = 0 - r.ID
           /\ \A u \in users : GetID(AuthOfShare(r)) # u.ID
    /\ (last.op = "LinkSharing.Create" /\ IsLinkSharing(last.auth) /\ last.err = "")
           => \A r \in link_shares :
                  r.ID = share_seq => r.SharedByID = 0 - last.auth.ID

ImportFailed == result \notin {"idle", "running", ""}

\* After a failed import the session holds nothing and the file storage
\* holds the files it held when the import was called.
C9_NothingRemains == ImportFailed => (tx = db /\ files = files_before)

\* The committed rows change in the step that commits, and in no other.
C9_VisibleByCommitOnly == db' # db => (result = "running" /\ todo = <<>> /\ result' = "")

\* C9: when a step of InsertFromStructure fails the call returns the error
\* and nothing the call created remains, stored files included; what the
\* import wrote becomes visible through the one commit after the last step.
C9_AllOrNothing == []C9_NothingRemains /\ [][C9_VisibleByCommitOnly]_vars

RightOps ==
    {"ListUser.Create", "ListUser.Update", "NamespaceUser.Create",
     "NamespaceUser.Update", "TeamNamespace.Create", "TeamNamespace.Update"}

\* A call with a right outside {0, 1, 2} returns InvalidRight, whatever else
\* is wrong with it, and writes nothing.
C10_InvalidRightStep ==
    /\ (last'.op \in RightOps /\ last'.right \notin {0, 1, 2})
           => (last'.err = "ErrInvalidRight" /\ UNCHANGED <<shareVars, linkVars>>)
    /\ (last'.op = "LinkSharing.Create" /\ last'.in.Right \notin {0, 1, 2})
           => (last'.err = "ErrInvalidRight" /\ UNCHANGED <<shareVars, linkVars>>)

\* C10: Create and Update of ListUser, NamespaceUser and TeamNamespace and
\* Create of LinkSharing fail with InvalidRight for every right outside
\* {0,1,2}, before any other lookup, and insert or change no row.
C10_InvalidRightRejected == [][C10_InvalidRightStep]_vars

\* An Update with an invalid right for a user that does not exist was
\* refused for its right.
C10_Witness ==
    /\ last.op = "ListUser.Update"
    /\ last.right \notin {0, 1, 2}
    /\ last.principal = "user500"
    /\ last.err = "ErrInvalidRight"

\* The rows of a bag of relation rows that belong to the pair of a call.
RowsOfPair(b, parentCol, principalCol, parent, principalID) ==
    { r \in DOMAIN b : r[parentCol] = parent /\ r[principalCol] = principalID }

\* What Delete did to the table b, b2 being the table after the call: without
\* a row of the pair the DoesNotHaveAccess error err and no change, else
\* no row of the pair left and every other row as it was.
DeleteOfPair(b, b2, parentCol, principalCol, err) ==
    LET hit == RowsOfPair(b, parentCol, principalCol, last'.parent, last'.principalID)
    IN IF hit = {}
       THEN last'.err = err /\ b2 = b
       ELSE /\ last'.err = ""
            /\ DOMAIN b2 = DOMAIN b \ hit
            /\ \A r \in DOMAIN b2 : b2[r] = b[r]

C11_DeleteStep ==
    /\ (last'.op = "ListUser.Delete" /\ last'.principalID # 0)
           => /\ DeleteOfPair(users_lists, users_lists', "list_id", "user_id",
                              "ErrUserDoesNotHaveAccessToList")
              /\ UNCHANGED <<users_namespaces, team_namespaces>>
    /\ (last'.op = "NamespaceUser.Delete" /\ last'.principalID # 0)
           => /\ DeleteOfPair(users_namespaces, users_namespaces', "namespace_id",
                              "user_id", "ErrUserDoesNotHaveAccessToNamespace")
              /\ UNCHANGED <<users_lists, team_namespaces>>
    /\ (last'.op = "TeamNamespace.Delete" /\ GetTeamByID(last'.principalID).ID # 0)
           => /\ DeleteOfPair(team_namespaces, team_namespaces', "namespace_id",
                              "team_id", "ErrTeamDoesNotHaveAccessToNamespace")
              /\ UNCHANGED <<users_lists, users_namespaces>>

ReadAllOps == {"ListUser.ReadAll", "NamespaceUser.ReadAll", "TeamNamespace.ReadAll"}

\* Whether the caller of the last ReadAll can read the parent it named.
CallerCanRead ==
    IF last.op = "ListUser.ReadAll" THEN ListCanRead(last.parent, last.auth)
    ELSE NamespaceCanRead(last.parent, last.auth)

\* C12: ReadAll of ListUser, NamespaceUser and TeamNamespace returns the
\* NeedReadAccess error of the parent and no entry when the caller cannot
\* read the parent; when it succeeds, every user it returns, the members of
\* a returned team included, has an empty email.
C12_ReadAllNeedsReadAccess ==
    last.op \in ReadAllOps =>
        /\ ~CallerCanRead =>
               /\ last.out = {}
               /\ last.err = IF last.op = "ListUser.ReadAll"
                             THEN "ErrNeedToHaveListReadAccess"
                             ELSE "ErrNeedToHaveNamespaceReadAccess"
        /\ CallerCanRead => last.err = ""
        /\ last.err = "" =>
               \A e \in last.out :
                   IF last.op = "TeamNamespace.ReadAll"
                   THEN \A m \in e.Members : m.Email = ""
                   ELSE e.Email = ""

\* The users of list 1 were read by the link share of list 1, and user2,
\* whose row in users holds an email, is among them.
C12_Witness ==
    /\ last.op = "ListUser.ReadAll"
    /\ IsLinkSharing(last.auth)
    /\ last.err = ""
    /\ \E e \in last.out : e.ID = 2 /\ e.Email = ""
    /\ \E u \in users : u.ID = 2 /\ u.Email # ""

\* What a successful Create stored: one new row whose type and password
\* follow from the password of the call alone, whose hash is the generated
\* one and whose sharer is the caller.
C13_CreateStep ==
    (last'.op = "LinkSharing.Create" /\ last'.err = "") =>
        \E r \in link_shares' :
            /\ r \notin link_shares
            /\ link_shares' = link_shares \cup {r}
            /\ IF last'.in.Password # ""
               THEN /\ r.SharingType = SharingTypeWithPassword
                    /\ r.Password = HashPassword(last'.in.Password)
                    /\ r.Password # last'.in.Password
               ELSE /\ r.SharingType = SharingTypeWithoutPassword
                    /\ r.Password = ""
            /\ Len(r.Hash) = 40
            /\ r.Hash \in Hashes
            /\ \A old \in link_shares : old.Hash # r.Hash
            /\ r.SharedByID = GetID(last'.auth)

\* C13: LinkSharing.Create stores SharingType WithPassword and the hash of
\* the password exactly when the call carries a password, WithoutPassword
\* otherwise, and always a newly generated hash of 40 characters and the
\* caller as sharer, whatever Hash, SharingType and SharedByID the call
\* carries.
C13_CreateSetsTypeHashSharer == [][C13_CreateStep]_vars

\* A share was created from an object that named another sharer, a hash of
\* its own and the type WithPassword, with no password.
C13_Witness ==
    /\ last.op = "LinkSharing.Create"
    /\ last.err = ""
    /\ last.in.Hash = CallerHash
    /\ last.in.SharedByID = 3
    /\ last.in.SharingType = SharingTypeWithPassword
    /\ last.in.Password = ""
    /\ \E r \in link_shares :
          r.ID = share_seq /\ r.SharingType = SharingTypeWithoutPassword
              /\ r.SharedByID = 1 /\ r.Hash # CallerHash

\* The number of rows r in the table b.
RowCount(b, r) == IF r \in DOMAIN b THEN b[r] ELSE 0

\* No pair of a label and a task has more than one row.
C14_AtMostOneRow == \A r \in DOMAIN label_tasks : RowCount(label_tasks, r) <= 1

\* LabelTask.Create for a pair that has a row fails and inserts nothing.
C14_CreateStep ==
    (/\ last'.op = "LabelTask.Create"
     /\ LabelTaskExists([LabelID |-> last'.label, TaskID |-> last'.task])) =>
        /\ last'.err = "ErrLabelIsAlreadyOnTask"
        /\ label_tasks' = label_tasks

\* C14: after any sequence of LabelTask.Create, LabelTask.Delete and
\* LabelTaskBulk.Create calls, a bulk call that names a label more than once
\* among them, label_tasks holds at most one row for a label and a task, and
\* LabelTask.Create for a pair that is there fails with
\* ErrLabelIsAlreadyOnTask and inserts nothing.
C14_OneRowPerLabelAndTask == []C14_AtMostOneRow /\ [][C14_CreateStep]_vars

\* The labels with a row for the task in the table b.
LabelsWithRow(b, taskID) == { r.label_id : r \in { x \in DOMAIN b : x.task_id = taskID } }

\* What a successful LabelTaskBulk.Create leaves: the labels with a row for
\* the task are the passed ones, the rows of a passed label that was on the
\* task and the rows of the other tasks are as they were, and the Labels of
\* the task object are the passed ones.
C15_BulkStep ==
    (last'.op = "LabelTaskBulk.Create" /\ last'.err = "") =>
        LET passed == Range(last'.labels)
            t == last'.task
        IN /\ LabelsWithRow(label_tasks', t) = passed
           /\ \A r \in DOMAIN label_tasks :
                  (r.task_id # t \/ r.label_id \in passed) =>
                      RowCount(label_tasks', r) = RowCount(label_tasks, r)
           /\ \A r \in DOMAIN label_tasks' : r.task_id # t => r \in DOMAIN label_tasks
           /\ Range(last'.taskLabels) = passed

\* C15: after LabelTaskBulk.Create succeeds the labels on the task are the
\* labels passed: a label that was not passed is removed, a passed label
\* that was not on the task is added, a passed label that was on the task
\* keeps its row, and the Labels of the task object are that set, for an
\* empty list of passed labels too.
C15_BulkReplacesLabels == [][C15_BulkStep]_vars

\* The time to the second.
TruncateToSecond(t) == [t EXCEPT !.nsec = 0]

\* What the task read back keeps of the task written: the title, the
\* description, the done state and the start, end, due and completion time
\* that was set, to the second.
C16_TaskStep ==
    last'.op = "caldav.SerializeAndParse" =>
        /\ last'.out.Title = last'.in.Title
        /\ last'.out.Description = last'.in.Description
        /\ last'.out.Done = last'.in.Done
        /\ \A f \in {"StartDate", "EndDate", "DueDate", "DoneAt"} :
               UnixPositive(last'.in[f]) =>
                   last'.out[f] = TruncateToSecond(last'.in[f])

\* The description of a DESCRIPTION value, its escapes undone.
Unescaped(value) == ReplaceAll(ReplaceAll(value, "BS", ",", ","), "BS", "n", "LF")

\* What the calendar written keeps of the calendar read: the summary, the
\* description, the done state and the start, end, due and completion time
\* that it held.
C16_TodoStep ==
    last'.op = "caldav.ParseAndSerialize" =>
        LET in == FirstComponent(last'.in)
            out == FirstComponent(last'.out)
        IN /\ Property(out, "SUMMARY", "") = Property(in, "SUMMARY", "")
           /\ Unescaped(Property(out, "DESCRIPTION", <<>>))
                  = Unescaped(Property(in, "DESCRIPTION", <<>>))
           /\ (Property(out, "STATUS", "") = "COMPLETED")
                  <=> (Property(in, "STATUS", "") = "COMPLETED")
           /\ \A name \in {"DTSTART", "DTEND", "DUE", "COMPLETED"} :
                  UnixPositive(caldavTimeToTimestamp(Property(in, name, NoString))) =>
                      caldavTimeToTimestamp(Property(out, name, NoString))
                          = caldavTimeToTimestamp(Property(in, name, NoString))

\* C16: for a todo without recurrence, reading the written todo
\* (ParseTaskFromVTODO of the output of GetCaldavTodosForTasks) and writing
\* a read VTODO both keep the title, the description but for its escapes,
\* the done state and every set time (start, end, due, completed) to the
\* second.
C16_RoundTripPreserves == [][C16_TaskStep /\ C16_TodoStep]_vars

\* The sessions that have passed the look for a row of the pair and have
\* not committed their insert.
InsertAttempts(listID, uid) ==
    { s \in Sessions :
        /\ sessions[s].pc \in {"insert", "commit"}
        /\ sessions[s].lu.ListID = listID
        /\ sessions[s].uid = uid }

\* A session comes to the insert by a look that found no committed row of
\* its pair, in a step that inserts nothing, and the insert is a later step;
\* what other sessions are doing does not keep a session from the insert.
C17_CheckStep ==
    \A s \in Sessions :
        /\ (sessions[s].pc = "idle" /\ sessions'[s].pc # "idle") =>
               /\ sessions'[s].pc = "insert"
               /\ ~ListUserExists(sessions'[s].lu.ListID, sessions'[s].uid)
               /\ users_lists' = users_lists
        /\ (sessions[s].pc = "insert" /\ sessions'[s].pc # "insert") =>
               /\ sessions'[s].pc = "commit"
               /\ sessions'[s].lu = sessions[s].lu
               /\ users_lists' = users_lists

\* C17: two Create requests for the same list and user, each in a session
\* of its own, can both pass the look for an existing row before either has
\* inserted, and both come to the insert: the look and the insert are two
\* steps, and each insert follows a look that found nothing.
C17_CheckThenInsertIsNotAtomic == [][C17_CheckStep]_vars

\* Both sessions have passed the look for list 1 and user2 and neither has
\* inserted.
C17_Witness ==
    /\ InsertAttempts(1, 2) = Sessions
    /\ \A s \in Sessions : sessions[s].pc = "insert"
    /\ ~ListUserExists(1, 2)

\* Where the two inserts end: two rows of list 1 and user2.
C17_TwoRows ==
    CopiesOf(users_lists, { r \in DOMAIN users_lists : r.list_id = 1 /\ r.user_id = 2 }) >= 2

\* The providers of the loaded configuration.
ConfiguredProviders ==
    { getProviderFromMap(authOpenID.providers[i]) : i \in DOMAIN authOpenID.providers }

\* GetProvider for the key of a configured provider returns the provider,
\* whatever the store held before, unless building a provider failed.
C18_ReadThroughStep ==
    (/\ last'.op = "GetProvider"
     /\ last'.err = ""
     /\ authOpenID.enabled
     /\ \E p \in ConfiguredProviders : p.Key = last'.key) =>
        /\ last'.out \in ConfiguredProviders
        /\ last'.out.Key = last'.key

\* Once the list of providers is stored, both lookups answer from the store
\* and build no provider.
C18_PopulatedOnceStep ==
    (/\ last'.op \in {"GetProvider", "GetAllProviders"}
     /\ authOpenID.loaded
     /\ keyvalue.openid_providers # {}) =>
        /\ built' = built
        /\ keyvalue' = keyvalue
        /\ last'.err = ""
        /\ last'.op = "GetAllProviders" => {last'.out} = keyvalue.openid_providers
        /\ last'.op = "GetProvider" =>
               IF StoredProvider(keyvalue, last'.key) = {} THEN last'.out = NoProvider
               ELSE last'.out \in StoredProvider(keyvalue, last'.key)

\* C18: the provider cache is read-through and populated once: GetProvider
\* for the key of a configured provider returns the provider on a cold cache
\* too, the first lookup filling the cache, and once the cache holds the
\* providers GetAllProviders and GetProvider answer from it and build no
\* provider again.
C18_ReadThroughPopulatedOnce == [][C18_ReadThroughStep /\ C18_PopulatedOnceStep]_vars

\* Every committed task is in a bucket of its list.
C19_TasksInBucketsOfTheirList ==
    \A t \in db.tasks :
        \E b \in db.buckets : b.ID = t.BucketID /\ b.ListID = t.ListID

\* The step that creates an imported task puts it in the bucket made for its
\* original bucket id, and in the default bucket of the list when no bucket
\* was made for it.
C19_PlacementStep ==
    (Running("task") /\ result' = "running") =>
        \E t \in tx'.tasks \ tx.tasks :
            /\ tx'.tasks = tx.tasks \cup {t}
            /\ t.ListID = Head(todo).parent
            /\ t.BucketID =
                   IF \E b \in buckets : b.old = Head(todo).in.BucketID
                   THEN (CHOOSE b \in buckets : b.old = Head(todo).in.BucketID).new
                   ELSE DefaultBucket(Head(todo).parent)

\* No step of a running import removes a bucket that a task is in.
C19_RemovalStep ==
    result' = "running" =>
        \A b \in tx.buckets \ tx'.buckets : ~\E t \in tx.tasks : t.BucketID = b.ID

\* C19: after InsertFromStructure succeeds every task it created, imported
\* or related, is in a bucket that is still there and is of the list of the
\* task: a task whose original bucket id is that of an imported bucket is in
\* the bucket created for it, any other task in the default bucket, and the
\* default bucket is not removed while a created task is in it.
C19_CreatedTasksKeepTheirBucket ==
    /\ []C19_TasksInBucketsOfTheirList
    /\ [][C19_PlacementStep /\ C19_RemovalStep]_vars

\* An imported task of the list l falls back to the default bucket when its
\* bucket id is that of no bucket of l.
FellBack(l) ==
    { i \in DOMAIN l.Tasks : l.Tasks[i].BucketID \notin Range(l.Buckets) }

\* The default bucket of the list is taken out by the step.
DefaultBucketRemoved(listID) ==
    /\ [ID |-> DefaultBucket(listID), ListID |-> listID] \in tx.buckets
    /\ tx'.buckets = tx.buckets \ {[ID |-> DefaultBucket(listID), ListID |-> listID]}

\* C20 as stated: at the end of the walk of a list the default bucket is
\* deleted when no imported task of the list referenced a bucket, all of
\* them having fallen back to the default bucket, and is kept otherwise.
C20_RemovedWhenAllFellBack ==
    [][(Running("default_bucket") /\ result' = "running") =>
          IF FellBack(Head(todo).in) = DOMAIN Head(todo).in.Tasks
          THEN DefaultBucketRemoved(Head(todo).parent)
          ELSE tx'.buckets = tx.buckets]_vars

\* C20, amended: at the end of the walk of a list the default bucket is
\* deleted when no imported task of the list fell back to it (every imported
\* task named an imported bucket, or the list has no task), the import
\* failing if the delete fails, and is kept when an imported task fell back
\* to it.
C20_RemovedWhenNoneFellBack ==
    [][Running("default_bucket") =>
          IF FellBack(Head(todo).in) = {}
          THEN \/ DefaultBucketRemoved(Head(todo).parent) /\ result' = "running"
               \/ result' \in {"ErrBucketReadAll", "ErrBucketDelete",
                               "ErrCannotRemoveLastBucket"} /\ tx' = db
          ELSE tx'.buckets = tx.buckets /\ result' = "running"]_vars

\* An import has committed a list with a task in the bucket created for its
\* original bucket, and without the default bucket created with the list.
C20_Witness ==
    /\ result = ""
    /\ \E l \in db.lists :
          /\ [ID |-> l.ID + 1, ListID |-> l.ID] \notin db.buckets
          /\ \E t \in db.tasks, b \in db.buckets :
                t.ListID = l.ID /\ b.ListID = l.ID /\ t.BucketID = b.ID

\* The step that attaches an imported label to its task: among the labels
\* the running import has created there is one, and only one, with the title
\* and the color of the imported label, and the task is attached to it.
C21_LabelStep ==
    (Running("label") /\ result' = "running") =>
        LET label == Head(todo).in
            created == tx'.labels \ db.labels
            same == { lb \in created :
                        lb.Title = label.Title /\ lb.HexColor = label.HexColor }
        IN /\ Cardinality(same) = 1
           /\ \E lb \in same :
                 [LabelID |-> lb.ID, TaskID |-> Head(todo).parent] \in tx'.label_tasks

\* C21: within one InsertFromStructure call the imported labels are
\* deduplicated by title and color: the tasks of the import, of all its
\* lists and namespaces, that carry a label of one title and one color are
\* attached to one created Label, and two labels that differ in title or in
\* color are created as two Labels.
C21_LabelsDeduplicatedByTitleAndColor == [][C21_LabelStep]_vars

SharingWriteOps ==
    {"ListUser.Create", "ListUser.Delete", "NamespaceUser.Create",
     "NamespaceUser.Delete", "TeamNamespace.Create", "TeamNamespace.Delete"}

\* C22: a successful Create or Delete of a ListUser, NamespaceUser or
\* TeamNamespace updates the last-updated timestamp of the parent list or
\* namespace.
C22_SharingWriteTouchesParent ==
    (last.op \in SharingWriteOps /\ last.err = "") => last.touched

\* The part that holds: a successful Create or Delete of a ListUser updates
\* the last-updated timestamp of the list.
C22_ListUserWriteTouchesList ==
    (last.op \in {"ListUser.Create", "ListUser.Delete"} /\ last.err = "") => last.touched

C23_ListUserStep ==
    last'.op = "ListUser.Update" =>
        LET all == DOMAIN users_lists \cup DOMAIN users_lists'
            Of(l, u) == { r \in all : r.list_id = l /\ r.user_id = u }
            matching == Of(last'.parent, last'.principalID)
        IN \* no row is inserted or removed, none changes list or user
           /\ \A r \in all :
                  CopiesOf(users_lists', Of(r.list_id, r.user_id) \cap DOMAIN users_lists')
                      = CopiesOf(users_lists, Of(r.list_id, r.user_id) \cap DOMAIN users_lists)
           \* the rows of every other (list, user) are left as they were
           /\ \A r \in all \ matching : RowCount(users_lists', r) = RowCount(users_lists, r)
           \* the matching rows carry the right of the call
           /\ last'.err = "" => \A r \in matching \cap DOMAIN users_lists' : r.right = last'.right
           \* no matching row, or an error: nothing is written
           /\ (matching = {} \/ last'.err # "") => users_lists' = users_lists
           /\ UNCHANGED <<users_namespaces, team_namespaces>>

C23_NamespaceUserStep ==
    last'.op = "NamespaceUser.Update" =>
        LET all == DOMAIN users_namespaces \cup DOMAIN users_namespaces'
            Of(n, u) == { r \in all : r.namespace_id = n /\ r.user_id = u }
            matching == Of(last'.parent, last'.principalID)
        IN /\ \A r \in all :
                  CopiesOf(users_namespaces', Of(r.namespace_id, r.user_id) \cap DOMAIN users_namespaces')
                      = CopiesOf(users_namespaces, Of(r.namespace_id, r.user_id) \cap DOMAIN users_namespaces)
           /\ \A r \in all \ matching :
                  RowCount(users_namespaces', r) = RowCount(users_namespaces, r)
           /\ last'.err = "" =>
                  \A r \in matching \cap DOMAIN users_namespaces' : r.right = last'.right
           /\ (matching = {} \/ last'.err # "") => users_namespaces' = users_namespaces
           /\ UNCHANGED <<users_lists, team_namespaces>>

C23_TeamNamespaceStep ==
    last'.op = "TeamNamespace.Update" =>
        LET all == DOMAIN team_namespaces \cup DOMAIN team_namespaces'
            Of(n, t) == { r \in all : r.namespace_id = n /\ r.team_id = t }
            matching == Of(last'.parent, last'.principalID)
        IN /\ \A r \in all :
                  CopiesOf(team_namespaces', Of(r.namespace_id, r.team_id) \cap DOMAIN team_namespaces')
                      = CopiesOf(team_namespaces, Of(r.namespace_id, r.team_id) \cap DOMAIN team_namespaces)
           /\ \A r \in all \ matching :
                  RowCount(team_namespaces', r) = RowCount(team_namespaces, r)
           /\ last'.err = "" =>
                  \A r \in matching \cap DOMAIN team_namespaces' : r.right = last'.right
           /\ (matching = {} \/ last'.err # "") => team_namespaces' = team_namespaces
           /\ UNCHANGED <<users_lists, users_namespaces>>

C23_NoMatch ==
    /\ last.op = "TeamNamespace.Update" /\ last.err = ""
    /\ team_namespaces # EmptyBag
    /\ \A r \in DOMAIN team_namespaces :
           ~(r.namespace_id = last.parent /\ r.team_id = last.principalID)

HasLine(content, name) == \E i \in DOMAIN content : content[i].name = name

\* C24: ParseTodos writes a DURATION line only for a todo without a due or
\* end date: a todo with a start date, a duration other than zero and an
\* unset (zero time) due date gets the line, a todo whose due date or end
\* date is set gets none.
C24_DurationOnlyWithoutDueOrEnd ==
    last.op = "caldav.SerializeAndParse" =>
        LET t == TodoOfTask(last.in)
        IN /\ (UnixPositive(t.Start) /\ t.Duration # NoDuration /\ IsZero(t.DueDate))
                  => HasLine(last.content, "DURATION")
           /\ (~IsZero(t.DueDate) \/ ~IsZero(t.End))
                  => ~HasLine(last.content, "DURATION")

\* What ParseTodos does: the line is written exactly for a todo with a start
\* after the epoch, a duration other than zero and a due date at the epoch.
C24_DurationOnlyForDueAtEpoch ==
    last.op = "caldav.SerializeAndParse" =>
        LET t == TodoOfTask(last.in)
        IN HasLine(last.content, "DURATION")
               <=> (UnixPositive(t.Start) /\ t.Duration # NoDuration /\ t.DueDate = Epoch)

\* The instant a value of one of the three formats denotes, read off the
\* value: 2021-11-06 is day 18937 after the epoch.
C25_Denotes(value, t) ==
    /\ value.form \in {"datetime", "datetimeZ", "date"}
    /\ CivilFromDays(t.day) = [Y |-> value.Y, M |-> value.M, D |-> value.D]
    /\ t.nsec = 0
    /\ IF value.form = "date" THEN t.sec = 0
       ELSE t.sec = value.h * 3600 + value.m * 60 + value.s

C25_TimeOf(value, t) ==
    IF value.form \in {"datetime", "datetimeZ", "date"} THEN C25_Denotes(value, t)
    ELSE IsZero(t)

\* C25: caldavTimeToTimestamp gives the zero time for an empty string and
\* for a string of none of its three formats, and the instant the value
\* denotes for a value of each format; ParseTaskFromVTODO returns a task
\* whatever the DUE, DTSTAMP, DTSTART and COMPLETED values are.
C25_TimesParsedOrZero ==
    last.op = "caldav.ParseAndSerialize" =>
        LET props == FirstComponent(last.in)
        IN /\ C25_TimeOf(Property(props, "DTSTART", NoString), last.task.StartDate)
           /\ C25_TimeOf(Property(props, "DUE", NoString), last.task.DueDate)
           /\ C25_TimeOf(Property(props, "DTSTAMP", NoString), last.task.Updated)
           /\ C25_TimeOf(Property(props, "COMPLETED", NoString), last.task.DoneAt)

\* A todo with a start of no format and a well-formed due date was read: the
\* start is the zero time, the due date the instant of the value.
C25_Witness ==
    /\ last.op = "caldav.ParseAndSerialize"
    /\ Property(FirstComponent(last.in), "DTSTART", NoString) = OtherString
    /\ Property(FirstComponent(last.in), "DUE", NoString) = makeCalDavTimeFromTimeStamp(NextDay)
    /\ IsZero(last.task.StartDate)
    /\ last.task.DueDate = [NextDay EXCEPT !.nsec = 0]

\* A todo whose start is a date without a time was read as midnight of the day.
C25_DateWitness ==
    /\ last.op = "caldav.ParseAndSerialize"
    /\ Property(FirstComponent(last.in), "DTSTART", NoString).form = "date"
    /\ last.task.StartDate = [day |-> 18937, sec |-> 0, nsec |-> 0]

\* C26: the import of a list without tasks, with or without buckets of its
\* own, succeeds and commits: the end of the walk of such a list fails only
\* when the store fails, and every list an import has committed has a bucket.
C26_EmptyListIsImported ==
    /\ [][(Running("default_bucket") /\ Head(todo).in.Tasks = <<>>) =>
              result' \in {"running", "ErrBucketReadAll", "ErrBucketDelete"}]_vars
    /\ [](\A l \in db.lists : \E b \in db.buckets : b.ListID = l.ID)

\* What holds: a list without tasks is imported when it brings a bucket of
\* its own, and then keeps its own buckets and loses the default bucket.
C26_EmptyListWithBucketsIsImported ==
    /\ [][(Running("default_bucket") /\ Head(todo).in.Tasks = <<>>
              /\ Head(todo).in.Buckets # <<>>) =>
              result' \in {"running", "ErrBucketReadAll", "ErrBucketDelete"}]_vars
    /\ [](\A l \in db.lists : \E b \in db.buckets : b.ListID = l.ID)

\* And a list without tasks and without buckets is never imported: the
\* delete of its only bucket is refused and the import rolled back.
C26_EmptyListWithoutBucketsFails ==
    [][(Running("default_bucket") /\ Head(todo).in.Tasks = <<>>
           /\ Head(todo).in.Buckets = <<>>) =>
           /\ result' \in {"ErrBucketReadAll", "ErrCannotRemoveLastBucket"}
           /\ tx' = db]_vars

C27_ResetStep ==
    last'.op = "user.ResetPassword" =>
        \* a token a reset has succeeded with is refused and changes nothing
        /\ last'.token \in spent =>
               /\ last'.err # "" /\ user_rows' = user_rows
               /\ last'.newPassword # "" => last'.err = "ErrInvalidPasswordResetToken"
        \* no token or no new password: refused, whatever the rows hold
        /\ (last'.token = "" \/ last'.newPassword = "") =>
               /\ last'.err \in {"ErrNoUsernamePassword", "ErrNoPasswordResetToken"}
               /\ user_rows' = user_rows
        \* a password changes only for the user whose outstanding token was passed
        /\ \A id \in DOMAIN user_rows :
               user_rows'[id].password # user_rows[id].password =>
                   /\ user_rows[id].password_reset_token # ""
                   /\ user_rows[id].password_reset_token = last'.token
                   /\ last'.err = ""

\* C27: a password reset token works at most once: once ResetPassword has
\* succeeded with a token, every later ResetPassword with it is refused (with
\* ErrInvalidPasswordResetToken when a new password is passed) and changes
\* no password; without a token or without a new password it is refused
\* whatever the rows hold, so the password of a user without an outstanding
\* token is never changed by it.
C27_ResetTokenWorksOnce == [][C27_ResetStep]_vars

\* A reset has succeeded with a token and set the password, and a later
\* reset with the same token was refused.
C27_Witness ==
    /\ last.op = "user.ResetPassword"
    /\ last.token \in spent /\ last.newPassword = "someWrongPassword"
    /\ last.err = "ErrInvalidPasswordResetToken"
    /\ \E id \in DOMAIN user_rows :
           /\ user_rows[id].password = HashPassword("1234")
           /\ user_rows[id].password_reset_token = ""

\* How often the pair of user and task is among the notifications q.
TimesNotified(q, user, task) ==
    Cardinality({ i \in DOMAIN q : q[i].User = user /\ q[i].Task = task })

\* C28: in one run of the reminder cron a user is notified at most once for
\* a task, also when the user is creator and assignee of the task and when
\* several reminders of the task are in the window of the run.
C28_NotifiedOncePerTask ==
    last.op = "ReminderCron" =>
        \A i \in DOMAIN last.notified :
            TimesNotified(last.notified, last.notified[i].User, last.notified[i].Task) = 1

\* What a run that notifies everyone sends: to the creator of a task one
\* notification for every reminder of the task in the window, and one more
\* to every assignee of the task, the creator among them.
C28_NotifiedPerReminderAndRole ==
    (last.op = "ReminderCron" /\ last.err = "") =>
        \A user \in { u.ID : u \in users }, task \in { t.ID : t \in reminder_tasks } :
            TimesNotified(last.notified, user, task) =
                IF user \notin email_reminders_enabled THEN 0
                ELSE (IF CreatedByID(task) = user
                      THEN Cardinality({ i \in DOMAIN last.taskIDs : last.taskIDs[i] = task })
                      ELSE 0)
                     + Cardinality({ i \in DOMAIN task_assignees :
                                       /\ task_assignees[i] = [task_id |-> task, user_id |-> user]
                                       /\ \E k \in DOMAIN last.taskIDs : last.taskIDs[k] = task })

\* The same for the runs with a single reminder in their window. It fails as
\* well: the creator of the task, being an assignee of it, is notified twice.
C28_OnceWithOneReminder ==
    (last.op = "ReminderCron" /\ Len(last.taskIDs) = 1) =>
        \A i \in DOMAIN last.notified :
            TimesNotified(last.notified, last.notified[i].User, last.notified[i].Task) = 1

\* A step that is a run of the cron.
IsCronRun == cron.registered /\ cron'.runs = cron.runs + 1

NotDone(taskID) == \E t \in reminder_tasks : t.ID = taskID /\ ~t.Done

\* The run of the step selects a reminder exactly when its time is from the
\* now of the run, cut to the second, up to a minute later and its task is
\* not done; no reminder has been selected twice; and with the run before a
\* minute earlier, every reminder of a task not done from the window of that
\* run up to the window of this one has been selected once.
C29_RunStep ==
    LET from == last'.now.sec + last'.now.loc
    IN \A i \in DOMAIN task_reminders :
          LET r == task_reminders[i]
          IN /\ selected'[r.ID] = selected[r.ID] + 1
                    <=> (from <= r.Reminder /\ r.Reminder < from + Minute /\ NotDone(r.TaskID))
             /\ selected'[r.ID] \in {selected[r.ID], selected[r.ID] + 1}
             /\ selected'[r.ID] <= 1
             /\ (last.op = "ReminderCron" /\ NotDone(r.TaskID)
                    /\ last.from <= r.Reminder /\ r.Reminder < from)
                    => selected'[r.ID] = 1

\* C29: getTasksWithRemindersInTheNextMinute(now) selects the task of a
\* reminder exactly when now <= r < now + 60 s, now cut to the second, and
\* the task is not done; with the runs a minute apart every reminder of a
\* task that stays undone is selected by one run, not skipped and not
\* selected twice.
C29_SelectedByExactlyOneRun == [][IsCronRun => C29_RunStep]_vars

\* What holds: the same while the zone of the process keeps its offset.
C29_SelectedByExactlyOneRunInOneOffset ==
    [][(IsCronRun /\ cron.changes = 0) => C29_RunStep]_vars

\* Two runs in a zone that kept its offset, the second of which selected a
\* reminder at the very start of its window.
C29_BoundaryWitness ==
    /\ last.op = "ReminderCron" /\ cron.changes = 0 /\ cron.runs = 2
    /\ \E i \in DOMAIN task_reminders :
          /\ task_reminders[i].Reminder = last.from
          /\ selected[task_reminders[i].ID] = 1

\* The first label of a bulk call that is not on the task yet and that the
\* principal has no access to, with every label to add before it existing
\* and accessible; 0 when there is none.
FirstRefusedLabel(taskID, newLabels, a) ==
    LET toAdd == { i \in DOMAIN newLabels : newLabels[i] \notin Range(LabelsOfTask(taskID)) }
        bad == { i \in toAdd :
                   \/ ~\E l \in labels_table : l.ID = newLabels[i]
                   \/ ~hasAccessToLabel(newLabels[i], a) }
        first == CHOOSE i \in bad : \A k \in bad : i <= k
    IN IF bad = {} THEN 0
       ELSE IF \E l \in labels_table : l.ID = newLabels[first] THEN newLabels[first]
       ELSE 0

C30_BulkStep ==
    (/\ last'.op = "LabelTaskBulk.Create"
     /\ \E t \in tasks_table : t.ID = last'.task
     /\ FirstRefusedLabel(last'.task, last'.labels, last'.auth) # 0) =>
        /\ last'.err = "ErrUserHasNoAccessToLabel"
        /\ label_tasks' = label_tasks

\* C30: when the principal has no access to a label that a bulk update
\* wants to add, updateTaskLabels returns ErrUserHasNoAccessToLabel as an
\* error value and attaches nothing, for a link share as for a user.
C30_NoAccessIsAnErrorValue == [][C30_BulkStep]_vars

\* What holds: for a user the error is returned, and for every principal no
\* label is attached.
C30_NoAccessAttachesNothing ==
    [][(/\ last'.op = "LabelTaskBulk.Create"
        /\ \E t \in tasks_table : t.ID = last'.task
        /\ FirstRefusedLabel(last'.task, last'.labels, last'.auth) # 0) =>
           /\ ~IsLinkSharing(last'.auth) => last'.err = "ErrUserHasNoAccessToLabel"
           /\ last'.err # ""
           /\ label_tasks' = label_tasks]_vars

====
